---------------------------- MODULE Spec2Model ----------------------------
(***************************************************************************)
(* PayPal webhook settlement (paypal_webhook.py, model.py).                *)
(*                                                                         *)
(* State: the relational store (beats with their embedded reservation      *)
(* columns, bundles, bundle_beats, orders), the SQLite idempotency ledger  *)
(* (webhook_events), the log of calls made to the bot gateway, the wall    *)
(* clock, and for every webhook delivery its position in paypal_webhook(), *)
(* its event, its local variables and its HTTP response; config is the     *)
(* process environment (ENVIRONMENT, SKIP_WEBHOOK_VERIFICATION).           *)
(*                                                                         *)
(* paypal_webhook() is a coroutine of one asyncio event loop: deliveries   *)
(* interleave only where it awaits.  One action is the code between two    *)
(* awaits.                                                                 *)
(***************************************************************************)
EXTENDS Integers, Sequences, FiniteSets, TLC

VARIABLES now, beats, bundles, bundle_beats, orders, ledger, sent,
          pc, ev, loc, resp, config, waiting

vars == <<now, beats, bundles, bundle_beats, orders, ledger, sent,
          pc, ev, loc, resp, config, waiting>>

store == <<beats, bundles, bundle_beats>>

-----------------------------------------------------------------------------
(* Bounds of the model *)

\* number of webhook deliveries in one behaviour
MaxDeliveries == 2
\* seconds the clock advances in one Tick
TickSeconds == 300
\* the clock stops here
MaxNow == 600

(* Program constants *)

\* time.time() - 300: horizon of the ledger prune; elapsed_since_order < 300
LedgerWindow == 300
OrderRecentWindow == 300
\* max_retries of notify_user_via_bot
MaxRetries == 3
\* min_discount of remove_exclusive_beats_from_bundle
MinDiscount == 10
\* telegram_user_id of a PayPal simulation
SimulationUserId == 12345

Deliveries == 1..MaxDeliveries

-----------------------------------------------------------------------------
(* Strings.  A Python str is a sequence of chunks; ":" "_" and " " are the   *)
(* characters parse_payment_data looks at, every other chunk is a run of     *)
(* other characters.  None and "" are both <<>> (the code only tests `not`). *)

NoneStr == <<>>

\* int(s) of the chunks that are decimal numerals; any other str raises ValueError
IsNumeral(s) == Len(s) = 1 /\ s[1] \in {"0", "1", "2", "12345"}

IntOf(s) ==
    CASE s[1] = "0" -> 0
      [] s[1] = "1" -> 1
      [] s[1] = "2" -> 2
      [] s[1] = "12345" -> 12345

\* ':' in s
HasColon(s) == \E i \in 1..Len(s) : s[i] = ":"

\* index of the first ":" of s at or after position i (Len(s)+1 when none)
RECURSIVE ColonFrom(_, _)
ColonFrom(s, i) ==
    IF i > Len(s) THEN Len(s) + 1
    ELSE IF s[i] = ":" THEN i
    ELSE ColonFrom(s, i + 1)

\* s.split(':', 2): at most three parts, the last keeps its colons
Split2(s) ==
    LET c1 == ColonFrom(s, 1)
        c2 == ColonFrom(s, c1 + 1)
    IN  IF c1 > Len(s) THEN <<s>>
        ELSE IF c2 > Len(s)
             THEN <<SubSeq(s, 1, c1 - 1), SubSeq(s, c1 + 1, Len(s))>>
             ELSE <<SubSeq(s, 1, c1 - 1), SubSeq(s, c1 + 1, c2 - 1),
                    SubSeq(s, c2 + 1, Len(s))>>

\* variant: the item name is taken as the title, underscores and all
KeepUnderscore(s) == s

\* s.replace('_', ' ')
ReplaceUnderscore(s) == [i \in 1..Len(s) |-> IF s[i] = "_" THEN " " ELSE s[i]]

SimulationTitle == <<"Test", " ", "Beat", " ", "Simulation">>
ParsingFailedTitle == <<"PARSING_FAILED">>

KindBeat == <<"beat">>
KindBundle == <<"bundle">>
KindItem == <<"item">>
KindUnknown == <<"unknown">>

-----------------------------------------------------------------------------
(* The catalog the behaviours start from: the bundle "Summer Pack" of the    *)
(* exclusive beat 7 "Midnight Drive" (30) and the standard beats 8 "Sunset"  *)
(* (40) and 9 "Dawn" (30), sold with 20 percent discount.  None (a NULL       *)
(* reserved_by_user_id, bundle_id or telegram_user_id) is 0.                 *)

TitleMidnight == <<"Midnight", " ", "Drive">>
TitleSunset == <<"Sunset">>
TitleDawn == <<"Dawn">>
NameSummer == <<"Summer", " ", "Pack">>

\* a row of beats (model.py Beat): the columns the webhook reads or writes
BeatRow(title, exclusive, price) ==
    [title |-> title, is_exclusive |-> exclusive, price |-> price,
     available |-> 1, reserved_by_user_id |-> 0, reservation_expired |-> FALSE]

\* a row of bundles (model.py Bundle)
BundleRow(name, individual, discount, price) ==
    [name |-> name, individual_price |-> individual,
     discount_percent |-> discount, bundle_price |-> price, is_active |-> 1]

MixedCatalog ==
    [beats |-> (7 :> BeatRow(TitleMidnight, 1, 30)) @@
               (8 :> BeatRow(TitleSunset, 0, 40)) @@
               (9 :> BeatRow(TitleDawn, 0, 30)),
     bundles |-> (1 :> BundleRow(NameSummer, 100, 20, 80)),
     bundle_beats |-> {<<1, 7>>, <<1, 8>>, <<1, 9>>}]

-----------------------------------------------------------------------------
(* Webhook events: body {id, event_type, resource}.  custom_id is the token  *)
(* on the capture resource, has_order_id says whether                         *)
(* resource.supplementary_data.related_ids.order_id is there, order_token is *)
(* the custom_id the provider holds for that order, pu_token the one of      *)
(* resource.purchase_units[0].                                               *)

Completed == "PAYMENT.CAPTURE.COMPLETED"
Approved == "CHECKOUT.ORDER.APPROVED"

\* buyer:kind:item_name, the item name with "_" for " "
Token(buyer, kind, name) == <<buyer, ":">> \o kind \o <<":">> \o name

\* a capture event whose token is fetched from the provider's order; the
\* resource carries the payer's address and the amount as PayPal writes it
CaptureEvent(id, txn, token) ==
    [id |-> id, event_type |-> Completed, txn |-> txn, custom_id |-> NoneStr,
     has_order_id |-> TRUE, order_token |-> token, pu_token |-> NoneStr,
     payer_email |-> "buyer@example.com", amount_value |-> "30.00",
     currency_code |-> "EUR"]

TokMidnight(buyer) == Token(buyer, KindBeat, <<"Midnight", "_", "Drive">>)
TokSummer(buyer) == Token(buyer, KindBundle, <<"Summer", "_", "Pack">>)

EvBuy1 == CaptureEvent("e1", "t1", TokMidnight("1"))
\* the approval of buyer 1's order: the resource is the order itself, with
\* its token in purchase_units
EvApproved1 ==
    [CaptureEvent("e10", "o1", NoneStr) EXCEPT
        !.event_type = Approved, !.has_order_id = FALSE,
        !.pu_token = TokMidnight("1")]
\* an event type the handler does not process
EvDenied == [CaptureEvent("e11", "t9", TokMidnight("1")) EXCEPT
                !.event_type = "PAYMENT.CAPTURE.DENIED"]
\* the same transaction under another event id
EvBuy1Again == CaptureEvent("e2", "t1", TokMidnight("1"))
\* buyer 2 pays for the same exclusive beat
EvBuy2 == CaptureEvent("e3", "t2", TokMidnight("2"))
\* buyer 1 pays for the bundle
EvBundle1 == CaptureEvent("e4", "t3", TokSummer("1"))
\* a token of kind "item", carried by the capture resource itself
EvItem1 ==
    [CaptureEvent("e5", "t4", NoneStr) EXCEPT
        !.custom_id = Token("1", KindItem, <<"Midnight", "_", "Drive">>),
        !.has_order_id = FALSE]

CoreEvents == {EvBuy1, EvBuy1Again, EvBuy2, EvBundle1}

NoEvent == CaptureEvent("none", "none", NoneStr)

-----------------------------------------------------------------------------
(* Event resolution: get_custom_id_from_order and parse_payment_data *)

\* get_custom_id_from_order: the custom_id of the order's first purchase
\* unit on a 200 ("found"); None on a 200 without purchase units
\* ("no_units"), on a 404 ("not_found"), on any other status
\* ("error_status"), on a failed token request ("token_failure") and on an
\* exception ("exception")
CustomIdFromOrder(e, lookup) ==
    IF lookup = "found" THEN e.order_token ELSE NoneStr

\* the three places parse_payment_data looks for the token, and is_simulation
FindCustomId(e, lookup) ==
    LET first == e.custom_id
        looked == first = NoneStr /\ e.has_order_id
        second == IF looked THEN CustomIdFromOrder(e, lookup) ELSE first
        third == IF second = NoneStr /\ e.pu_token # NoneStr
                 THEN e.pu_token ELSE second
    IN  [custom_id |-> third, is_simulation |-> looked /\ second = NoneStr]

\* Bundle.name == beat_title, Bundle.is_active == 1, .first(): its id, or None
ActiveBundleNamed(bn, name) ==
    LET hits == {b \in DOMAIN bn : bn[b].name = name /\ bn[b].is_active = 1}
    IN  IF hits = {} THEN 0 ELSE CHOOSE b \in hits : \A c \in hits : b <= c

\* (None, None, None, "beat"): is_none tells None from 0 and ""
Unresolved ==
    [telegram_user_id |-> 0, beat_title |-> NoneStr, bundle_id |-> 0,
     order_type |-> KindBeat, is_none |-> TRUE]

\* the parsing of custom_id (user_id:type:item_name, or user_id:item_name)
ParseCustomId(custom_id, bn) ==
    IF custom_id # NoneStr /\ HasColon(custom_id)
    THEN LET parts == Split2(custom_id)
             order_type == IF Len(parts) >= 3 THEN parts[2] ELSE KindBeat
             item_name == IF Len(parts) >= 3 THEN parts[3] ELSE parts[2]
             beat_title == ReplaceUnderscore(item_name)
         IN  IF IsNumeral(parts[1])
             THEN [telegram_user_id |-> IntOf(parts[1]),
                   beat_title |-> beat_title,
                   bundle_id |-> IF order_type = KindBundle
                                 THEN ActiveBundleNamed(bn, beat_title) ELSE 0,
                   order_type |-> order_type,
                   is_none |-> FALSE]
             ELSE Unresolved
    ELSE Unresolved

\* parse_payment_data: (telegram_user_id, beat_title, bundle_id, order_type)
ParsePaymentData(e, lookup, bn) ==
    LET found == FindCustomId(e, lookup)
        parsed == ParseCustomId(found.custom_id, bn)
    IN  IF found.is_simulation /\ parsed.is_none
        THEN [telegram_user_id |-> SimulationUserId,
              beat_title |-> SimulationTitle, bundle_id |-> 0,
              order_type |-> KindBeat, is_none |-> FALSE]
        ELSE parsed

-----------------------------------------------------------------------------
(* The reservation collaborators (bot/db_manager.py, imported at lines       *)
(* 23-26).  A reservation is the beat's reserved_by_user_id with its         *)
(* reservation_expires_at; reservation_expired says that instant has passed. *)

ClearReservation(row) ==
    [row EXCEPT !.reserved_by_user_id = 0, !.reservation_expired = FALSE]

\* prune_expired_reservations
CleanupExpiredReservations(bs) ==
    [b \in DOMAIN bs |->
        IF bs[b].reserved_by_user_id # 0 /\ bs[b].reservation_expired
        THEN ClearReservation(bs[b]) ELSE bs[b]]

ActiveReservationsOf(bs, user) ==
    {b \in DOMAIN bs : bs[b].reserved_by_user_id = user /\ user # 0
                       /\ ~bs[b].reservation_expired}

\* get_active_reservation(buyer) -> (bool, info, item_id)
GetUserActiveReservation(bs, user) ==
    LET held == ActiveReservationsOf(bs, user)
    IN  IF held = {} THEN [has_reservation |-> FALSE, reserved_beat_id |-> 0]
        ELSE [has_reservation |-> TRUE,
              reserved_beat_id |-> CHOOSE b \in held : \A c \in held : b <= c]

\* release_item_reservation(item_id, buyer)
ReleaseBeatReservation(bs, beat_id, user) ==
    [b \in DOMAIN bs |->
        IF b = beat_id /\ bs[b].reserved_by_user_id = user
        THEN ClearReservation(bs[b]) ELSE bs[b]]

\* release_bundle_reservations(bundle_id, buyer)
ReleaseBundleReservations(bs, bb, bundle_id, user) ==
    [b \in DOMAIN bs |->
        IF <<bundle_id, b>> \in bb /\ bs[b].reserved_by_user_id = user
        THEN ClearReservation(bs[b]) ELSE bs[b]]

-----------------------------------------------------------------------------
(* Queries and post-sale cleanup of the store *)

\* variant: no row is deleted
KeepRows(table, keep) == table

\* restriction of a table to the rows whose key is in keep
Rows(table, keep) == [k \in keep |-> table[k]]

\* .first() of a query on beats: the row of least id among the hits, or None
FirstOf(hits) == IF hits = {} THEN 0 ELSE CHOOSE b \in hits : \A c \in hits : b <= c

\* Beat.title == title, Beat.is_exclusive == flag
BeatByTitle(bs, title, flag) ==
    FirstOf({b \in DOMAIN bs : bs[b].title = title /\ bs[b].is_exclusive = flag})

\* query(Beat).join(BundleBeat).filter(BundleBeat.bundle_id == bundle_id)
BeatsInBundle(bs, bb, bundle_id) ==
    {b \in DOMAIN bs : <<bundle_id, b>> \in bb}

RECURSIVE SumPrice(_, _)
SumPrice(bs, members) ==
    IF members = {} THEN 0
    ELSE LET b == CHOOSE x \in members : TRUE
         IN  bs[b].price + SumPrice(bs, members \ {b})

\* variant: the beat is deleted and its membership rows are left behind
RemoveBeatKeepRelations(bs, bb, title) ==
    LET beat == BeatByTitle(bs, title, 1)
    IN  IF beat # 0
        THEN [beats |-> Rows(bs, DOMAIN bs \ {beat}), bundle_beats |-> bb,
              removed |-> TRUE]
        ELSE [beats |-> bs, bundle_beats |-> bb, removed |-> FALSE]

\* remove_exclusive_beat_by_title: the membership rows of the beat, then the beat
RemoveExclusiveBeatByTitle(bs, bb, title) ==
    LET beat == BeatByTitle(bs, title, 1)
    IN  IF beat # 0
        THEN [beats |-> Rows(bs, DOMAIN bs \ {beat}),
              bundle_beats |-> {r \in bb : r[2] # beat},
              removed |-> TRUE]
        ELSE [beats |-> bs, bundle_beats |-> bb, removed |-> FALSE]

\* session.delete(bundle) with Bundle.orders a relationship without a delete
\* cascade: the unit of work sets the bundle_id of the bundle's orders to NULL
NullifyBundleOrders(os, bundle_id) ==
    {IF o.bundle_id = bundle_id THEN [o EXCEPT !.bundle_id = 0] ELSE o : o \in os}

\* new_individual_price * (1 - new_discount_percent / 100)
DiscountedPrice(individual, discount) == (individual * (100 - discount)) \div 100

\* variant: the discount is kept as it is
KeepDiscount(original) == original

\* max(original_discount_percent, min_discount)
NewDiscountPercent(original) == IF original >= MinDiscount THEN original ELSE MinDiscount

\* remove_exclusive_beats_from_bundle
RemoveExclusiveBeatsFromBundle(bs, bn, bb, os, bundle_id) ==
    IF bundle_id \notin DOMAIN bn
    THEN [beats |-> bs, bundles |-> bn, bundle_beats |-> bb, orders |-> os]
    ELSE LET all == BeatsInBundle(bs, bb, bundle_id)
             exclusive == {b \in all : bs[b].is_exclusive # 0}
             non_exclusive == {b \in all : bs[b].is_exclusive = 0}
             bs2 == Rows(bs, DOMAIN bs \ exclusive)
             bb2 == {r \in bb : r[2] \notin exclusive}
             individual == SumPrice(bs, non_exclusive)
             discount == NewDiscountPercent(bn[bundle_id].discount_percent)
         IN  IF non_exclusive = {}
             THEN [beats |-> bs2,
                   bundles |-> Rows(bn, DOMAIN bn \ {bundle_id}),
                   bundle_beats |-> bb2,
                   orders |-> NullifyBundleOrders(os, bundle_id)]
             ELSE [beats |-> bs2,
                   bundles |-> [bn EXCEPT ![bundle_id] =
                       [@ EXCEPT !.individual_price = individual,
                                 !.bundle_price = DiscountedPrice(individual, discount),
                                 !.discount_percent = discount]],
                   bundle_beats |-> bb2,
                   orders |-> os]

-----------------------------------------------------------------------------
(* The notification gateway client *)

\* variant: the HTTP status decides, any 200 is a success
NotifyStepByHttpStatus(reply, attempt) ==
    CASE reply \in {"ok", "partial", "error", "unknown", "unparsable"} -> "success"
      [] reply = "4xx" -> "failure"
      [] OTHER -> IF attempt < MaxRetries - 1 THEN "retry" ELSE "failure"

\* variant: a 4xx is retried like any other failure
\* variant: an attempt that may be retried is retried without end
NotifyStepNeverGivesUp(reply, attempt) ==
    CASE reply = "ok" -> "success"
      [] reply \in {"partial", "error", "unknown", "unparsable"} -> "failure"
      [] reply = "4xx" -> "failure"
      [] OTHER -> "retry"

NotifyStepRetriesAll(reply, attempt) ==
    CASE reply = "ok" -> "success"
      [] reply \in {"partial", "error", "unknown", "unparsable"} -> "failure"
      [] OTHER -> IF attempt < MaxRetries - 1 THEN "retry" ELSE "failure"

\* what one attempt of notify_user_via_bot does with the gateway's reply:
\* a 200 is final, ok alone is success; a 4xx is final; anything else is
\* retried while attempts are left
NotifyStep(reply, attempt) ==
    CASE reply = "ok" -> "success"
      [] reply \in {"partial", "error", "unknown", "unparsable"} -> "failure"
      [] reply = "4xx" -> "failure"
      [] OTHER -> IF attempt < MaxRetries - 1 THEN "retry" ELSE "failure"

\* the branch of the client an attempt ends in: a 200 with its body (lines
\* 483-507), a 4xx (lines 513-515), or anything else, which falls through to
\* the pause: another status (line 508), a timeout (line 517), an exception
\* (line 519)
ReplyBranch(reply) ==
    CASE reply \in {"ok", "partial", "error", "unknown", "unparsable"} -> "200"
      [] reply = "4xx" -> "4xx"
      [] OTHER -> "other"

\* lines 485-503: response_data.get("status", "unknown") of a 200 reply; a
\* body that is no JSON object has none
BodyStatus(reply) ==
    CASE reply \in {"ok", "partial", "error"} -> reply
      [] reply = "unknown" -> "unknown"
      [] OTHER -> "none"

\* variant: a constant pause of one second
WaitOneSecond(attempt) == 1

\* lines 523-526: asyncio.sleep(2 ** attempt) after a failed attempt that is
\* not the last
WaitTime(attempt) == 2 ^ attempt

\* the payload of POST /internal/send_message, and the delivery that sent it
Payload(d, user, title, bundle_id, order_type, txn) ==
    [user_id |-> user, beat_title |-> title, bundle_id |-> bundle_id,
     order_type |-> order_type, transaction_id |-> txn, by |-> d]

-----------------------------------------------------------------------------
(* Signature verification *)

\* variant: every delivery is taken for verified
VerifyAlways(cfg, oracle) == TRUE

\* verify_paypal_webhook: the oracle's verdict, unless the switch skips it;
\* an error of the call is accepted in development
VerifyPaypalWebhook(cfg, oracle) ==
    IF cfg.skip_verification THEN TRUE
    ELSE IF oracle = "ERROR" THEN cfg.environment = "development"
    ELSE oracle = "SUCCESS"

-----------------------------------------------------------------------------
(* Initial state *)

InitLoc ==
    [telegram_user_id |-> 0, beat_title |-> NoneStr, bundle_id |-> 0,
     order_type |-> KindBeat, check |-> "none", attempt |-> 0,
     persisted |-> "no", notification |-> "none", removed |-> {},
     cache_error |-> FALSE, lookup |-> "none", steps |-> <<>>,
     oracle |-> "none", waits |-> <<>>, branch |-> "none", body |-> "none"]

NoResponse == [status |-> 0, detail |-> "none"]

InitWith(catalog, cfg, deliveries) ==
    /\ now = 0
    /\ beats = catalog.beats
    /\ bundles = catalog.bundles
    /\ bundle_beats = catalog.bundle_beats
    /\ orders = {}
    /\ ledger = {}
    /\ sent = {}
    /\ waiting = {}
    /\ pc = [d \in deliveries |-> "idle"]
    /\ ev = [d \in deliveries |-> NoEvent]
    /\ loc = [d \in deliveries |-> InitLoc]
    /\ resp = [d \in deliveries |-> NoResponse]
    /\ config = cfg

Production == [environment |-> "production", skip_verification |-> FALSE]

Init == InitWith(MixedCatalog, Production, Deliveries)

-----------------------------------------------------------------------------
(* The steps of paypal_webhook *)

\* variant: the delivery fails with the error of the outer handler
RespondInternalError(d, status, detail) ==
    /\ pc' = [pc EXCEPT ![d] = "done"]
    /\ resp' = [resp EXCEPT ![d] = [status |-> 500, detail |-> "internal error"]]

\* return {...} or raise HTTPException(status_code)
Respond(d, status, detail) ==
    /\ pc' = [pc EXCEPT ![d] = "done"]
    /\ resp' = [resp EXCEPT ![d] = [status |-> status, detail |-> detail]]

\* variant: every event type is processed
RecognizesAll(event_type) == TRUE

\* line 556: the event types the handler processes
Recognized(event_type) == event_type \in {Completed, Approved}

\* lines 541-576: the body is read, the event type dispatched, the signature
\* verified.  Deliveries are numbered in their order of arrival.
Receive(d, e, oracle) ==
    /\ pc[d] = "idle"
    /\ \A c \in DOMAIN pc : c < d => pc[c] # "idle"
    /\ ev' = [ev EXCEPT ![d] = e]
    /\ IF ~Recognized(e.event_type)
       THEN Respond(d, 200, "acknowledged") /\ UNCHANGED loc
       ELSE /\ loc' = [loc EXCEPT ![d].oracle = oracle]
            /\ IF ~VerifyPaypalWebhook(config, oracle)
               THEN Respond(d, 400, "verification failed")
               ELSE /\ pc' = [pc EXCEPT ![d] =
                                 IF e.event_type = Approved THEN "approved" ELSE "gate"]
                    /\ UNCHANGED resp
    /\ UNCHANGED <<now, store, orders, ledger, sent, config, waiting>>

\* the payload of POST /internal/send_waiting_message, and the delivery that
\* sent it
WaitingNotice(d, user, title, bundle_id, order_type) ==
    [user_id |-> user, beat_title |-> title, bundle_id |-> bundle_id,
     order_type |-> order_type, by |-> d]

\* lines 582-594, CHECKOUT.ORDER.APPROVED: the event is resolved and, if a
\* buyer and a title came out, the waiting notice is sent; whatever the
\* gateway answers the delivery returns 200
Approve(d, Lookups) ==
    /\ pc[d] = "approved"
    /\ \E lookup \in Lookups :
         LET p == ParsePaymentData(ev[d], lookup, bundles)
         IN  /\ waiting' = IF p.telegram_user_id # 0 /\ p.beat_title # NoneStr
                           THEN waiting \cup
                                  {WaitingNotice(d, p.telegram_user_id, p.beat_title,
                                                 p.bundle_id, p.order_type)}
                           ELSE waiting
             /\ loc' = [loc EXCEPT ![d].lookup = lookup,
                                   ![d].telegram_user_id = p.telegram_user_id,
                                   ![d].beat_title = p.beat_title,
                                   ![d].bundle_id = p.bundle_id,
                                   ![d].order_type = p.order_type]
    /\ Respond(d, 200, "order approved")
    /\ UNCHANGED <<now, store, orders, ledger, sent, ev, config>>

\* variant: the except clause re-raises
ReraiseValidationError(raised) == raised

\* lines 775-779, `except Exception as validation_error`: whatever the try of
\* lines 756-774 raised, an error of a collaborator or the
\* HTTPException(status_code=409) of line 771 (an Exception too), is logged
\* and the payment continues; 0 is "no rejection"
ExceptValidationError(raised) == 0

\* lines 756-779: the reservation check of an exclusive beat.  unavailable
\* names the collaborator that raises, if any.
ReservationCheck(bs, user, exclusive_beat, unavailable) ==
    LET pruned == CleanupExpiredReservations(bs)
        r == GetUserActiveReservation(pruned, user)
        invalid == ~r.has_reservation \/ r.reserved_beat_id # exclusive_beat
    IN  CASE unavailable = "cleanup" ->
               [status |-> ExceptValidationError(500), check |-> "error", beats |-> bs]
          [] unavailable = "lookup" ->
               [status |-> ExceptValidationError(500), check |-> "error", beats |-> pruned]
          [] OTHER ->
               IF invalid
               THEN [status |-> ExceptValidationError(409), check |-> "invalid",
                     beats |-> pruned]
               ELSE [status |-> 0, check |-> "valid", beats |-> pruned]

\* lines 713-796: the checks made before the order is saved; status 0 lets
\* the payment through
Validate(p, bs, bn, bb, unavailable) ==
    IF p.order_type = KindBundle /\ p.bundle_id # 0
    THEN IF p.bundle_id \notin DOMAIN bn
         THEN [status |-> 404, check |-> "bundle", beats |-> bs]
         ELSE IF BeatsInBundle(bs, bb, p.bundle_id) = {}
         THEN [status |-> 409, check |-> "bundle", beats |-> bs]
         ELSE [status |-> 0, check |-> "bundle", beats |-> bs]
    ELSE IF p.order_type = KindBeat
    THEN LET exclusive_beat == BeatByTitle(bs, p.beat_title, 1)
         IN  IF exclusive_beat # 0
             THEN ReservationCheck(bs, p.telegram_user_id, exclusive_beat, unavailable)
             ELSE IF BeatByTitle(bs, p.beat_title, 0) = 0
             THEN [status |-> 404, check |-> "standard", beats |-> bs]
             ELSE [status |-> 0, check |-> "standard", beats |-> bs]
    ELSE [status |-> 0, check |-> "none", beats |-> bs]

\* variant: transaction_id without its unique constraint
CommitNeverRaises(os, txn) == FALSE

\* Order.transaction_id is unique: db.commit() of a second row with the id
\* raises IntegrityError
CommitRaises(os, txn) == \E o \in os : o.transaction_id = txn

\* line 604, float(resource.get("amount", {}).get("value", 0)), in cents:
\* the default 0 when the resource has no amount
AmountOf(value) ==
    CASE value = "30.00" -> 3000
      [] value = "80.00" -> 8000
      [] value = "" -> 0

\* Order(...) as lines 695-706 and 800-811 build it; created_at defaults to
\* now.  The primary key id, which the code never reads, is a fresh value:
\* the number of the delivery that inserts the row (it inserts at most one).
OrderRow(id, e, user, title, bundle_id, order_type, created_at) ==
    [id |-> id, transaction_id |-> e.txn, telegram_user_id |-> user, beat_title |-> title,
     bundle_id |-> bundle_id, order_type |-> order_type, created_at |-> created_at,
     payer_email |-> e.payer_email, amount |-> AmountOf(e.amount_value),
     currency |-> e.currency_code]

\* lines 689-826, from the return of the provider lookup to the call of the
\* gateway: resolution, the debug record of an unresolvable event,
\* validation, the order's commit
SettleFrom(d, locals, lookup, unavailable) ==
    LET e == ev[d]
        p == ParsePaymentData(e, lookup, bundles)
        v == Validate(p, beats, bundles, bundle_beats, unavailable)
        resolved == [locals EXCEPT !.lookup = lookup,
                                   !.telegram_user_id = p.telegram_user_id,
                                   !.beat_title = p.beat_title,
                                   !.bundle_id = p.bundle_id,
                                   !.order_type = p.order_type]
    IN  IF p.telegram_user_id = 0 \/ p.beat_title = NoneStr
        THEN /\ loc' = [loc EXCEPT ![d] =
                          [resolved EXCEPT !.persisted =
                              IF CommitRaises(orders, e.txn)
                              THEN "integrity_error" ELSE "debug",
                                           !.steps =
                              IF CommitRaises(orders, e.txn)
                              THEN @ ELSE Append(@, "commit")]]
             /\ IF CommitRaises(orders, e.txn)
                THEN Respond(d, 500, "internal error") /\ UNCHANGED orders
                ELSE /\ orders' = orders \cup
                          {OrderRow(d, e, p.telegram_user_id,
                                    IF p.beat_title = NoneStr
                                    THEN ParsingFailedTitle ELSE p.beat_title,
                                    p.bundle_id, KindUnknown, now)}
                     /\ Respond(d, 400, "invalid payment data")
             /\ UNCHANGED <<beats, sent>>
        ELSE /\ beats' = v.beats
             /\ IF v.status # 0
                THEN /\ Respond(d, v.status, "rejected")
                     /\ loc' = [loc EXCEPT ![d] = [resolved EXCEPT !.check = v.check]]
                     /\ UNCHANGED <<orders, sent>>
                ELSE IF CommitRaises(orders, e.txn)
                THEN /\ Respond(d, 500, "internal error")
                     /\ loc' = [loc EXCEPT ![d] =
                                  [resolved EXCEPT !.check = v.check,
                                                   !.persisted = "integrity_error"]]
                     /\ UNCHANGED <<orders, sent>>
                ELSE /\ orders' = orders \cup
                          {OrderRow(d, e, p.telegram_user_id, p.beat_title,
                                    p.bundle_id, p.order_type, now)}
                     /\ sent' = sent \cup
                          {Payload(d, p.telegram_user_id, p.beat_title,
                                   p.bundle_id, p.order_type, e.txn)}
                     /\ loc' = [loc EXCEPT ![d] =
                                  [resolved EXCEPT !.check = v.check,
                                                   !.persisted = "committed",
                                                   !.steps = @ \o <<"commit", "notify">>]]
                     /\ pc' = [pc EXCEPT ![d] = "notify"]
                     /\ UNCHANGED resp

\* the settlement of a delivery with the locals it has
SettleBody(d, lookup, unavailable) == SettleFrom(d, loc[d], lookup, unavailable)

\* variant: the ledger never reports an event id
LedgerNeverHits(rows, t, webhook_id) == FALSE

\* variant: an existing order is never taken for a recent one
OrderNeverRecent(o, t) == FALSE

\* variant: an existing order is always taken for a recent one
OrderAlwaysRecent(o, t) == TRUE

\* variant: the ledger is never pruned
PruneNothing(rows, t) == rows

\* DELETE FROM webhook_events WHERE timestamp < time.time() - 300
PruneLedger(rows, t) == {r \in rows : ~(r.timestamp < t - LedgerWindow)}

\* SELECT timestamp FROM webhook_events WHERE webhook_id = ?, after the prune
LedgerHit(rows, t, webhook_id) ==
    \E r \in PruneLedger(rows, t) : r.webhook_id = webhook_id

\* elapsed_since_order < 300
OrderIsRecent(o, t) == t - o.created_at < OrderRecentWindow

\* db.query(Order).filter(Order.transaction_id == transaction_id).first()
ExistsTxn(os, txn) == {o \in os : o.transaction_id = txn}

\* whether parse_payment_data awaits the provider (its second attempt)
AwaitsLookup(e) == e.custom_id = NoneStr /\ e.has_order_id

\* variant: the except clause of the ledger re-raises
ReraiseCacheError(raised) == raised

\* lines 654-656, `except Exception as cache_error`: the error of the ledger
\* is logged and the delivery continues; 0 is "no error response"
ExceptCacheError(raised) == 0

\* the call of the ledger's try block (lines 626-652) that raises, if any,
\* raises before the ledger has reported a hit
LedgerRaises(fault, hit) ==
    fault \in {"open", "prune", "lookup"} \/ (fault \in {"insert", "commit"} /\ ~hit)

\* lines 601-689: the idempotency gate.  A ledger hit returns before the
\* connection commits, so the prune is rolled back; otherwise the prune and
\* the new entry are committed.  When a call of the ledger raises nothing of
\* the connection is committed and the delivery goes on without a hit.  An
\* old order has the gateway called again.  When the gate lets the event
\* through and the token is on the resource, nothing is awaited before
\* settlement.
GateWith(d, LedgerFaults, Unavailable) ==
    /\ pc[d] = "gate"
    /\ \E fault \in LedgerFaults :
         LET e == ev[d]
             exists_txn == ExistsTxn(orders, e.txn)
             hit == fault \notin {"open", "prune", "lookup"}
                        /\ LedgerHit(ledger, now, e.id)
             raises == LedgerRaises(fault, hit)
             locals == [loc[d] EXCEPT !.cache_error = raises]
         IN  IF hit
             THEN /\ Respond(d, 200, "duplicate webhook event")
                  /\ UNCHANGED <<beats, orders, ledger, sent, loc>>
             ELSE IF raises /\ ExceptCacheError(500) # 0
             THEN /\ Respond(d, ExceptCacheError(500), "internal error")
                  /\ loc' = [loc EXCEPT ![d] = locals]
                  /\ UNCHANGED <<beats, orders, ledger, sent>>
             ELSE /\ ledger' = IF raises THEN ledger
                                ELSE PruneLedger(ledger, now) \cup
                                       {[webhook_id |-> e.id, timestamp |-> now,
                                         transaction_id |-> e.txn]}
                  /\ IF exists_txn # {}
                     THEN LET o == CHOOSE x \in exists_txn : TRUE
                          IN  IF OrderIsRecent(o, now)
                              THEN /\ Respond(d, 200, "already processed")
                                   /\ loc' = [loc EXCEPT ![d] = locals]
                                   /\ UNCHANGED <<beats, orders, sent>>
                              ELSE /\ pc' = [pc EXCEPT ![d] = "renotify"]
                                   /\ sent' = sent \cup
                                        {Payload(d, o.telegram_user_id, o.beat_title,
                                                 o.bundle_id, o.order_type, e.txn)}
                                   /\ loc' = [loc EXCEPT ![d] =
                                                [locals EXCEPT !.steps = Append(@, "notify")]]
                                   /\ UNCHANGED <<beats, orders, resp>>
                     ELSE IF AwaitsLookup(e)
                     THEN /\ pc' = [pc EXCEPT ![d] = "resolve"]
                          /\ loc' = [loc EXCEPT ![d] = locals]
                          /\ UNCHANGED <<beats, orders, sent, resp>>
                     ELSE \E u \in Unavailable : SettleFrom(d, locals, "none", u)
    /\ UNCHANGED <<now, bundles, bundle_beats, ev, config, waiting>>

\* the gate with a working ledger
Gate(d, Unavailable) == GateWith(d, {"none"}, Unavailable)

\* parse_payment_data resumes with the provider's answer
Settle(d, Lookups, Unavailable) ==
    /\ pc[d] = "resolve"
    /\ \E lookup \in Lookups, u \in Unavailable : SettleBody(d, lookup, u)
    /\ UNCHANGED <<now, bundles, bundle_beats, ledger, ev, config, waiting>>

\* the two blocks the handler enters after a successful notification, in
\* the order of the source: lines 838-871, then lines 876-894
CleanupSteps == <<"release", "remove">>

\* lines 837-896: release of the buyer's reservation, then removal of the
\* sold exclusive beats.  fault names the call that raises, if any: the
\* error is logged and the delivery goes on.
Cleanup(d, fault) ==
    LET l == loc[d]
        is_bundle == l.order_type = KindBundle /\ l.bundle_id # 0
        sold == BeatByTitle(beats, l.beat_title, 1)
        released ==
            IF fault = "release" THEN beats
            ELSE IF l.order_type = KindBeat
            THEN IF sold # 0
                 THEN ReleaseBeatReservation(beats, sold, l.telegram_user_id)
                 ELSE beats
            ELSE IF is_bundle
            THEN ReleaseBundleReservations(beats, bundle_beats, l.bundle_id,
                                           l.telegram_user_id)
            ELSE beats
        bundle_cleanup == RemoveExclusiveBeatsFromBundle(
                              released, bundles, bundle_beats, orders, l.bundle_id)
        beat_cleanup == RemoveExclusiveBeatByTitle(released, bundle_beats, l.beat_title)
    IN  IF fault = "cleanup"
        THEN beats' = released /\ UNCHANGED <<bundles, bundle_beats, orders>>
        ELSE IF is_bundle
        THEN /\ beats' = bundle_cleanup.beats
             /\ bundles' = bundle_cleanup.bundles
             /\ bundle_beats' = bundle_cleanup.bundle_beats
             /\ orders' = bundle_cleanup.orders
        ELSE /\ beats' = beat_cleanup.beats
             /\ bundle_beats' = beat_cleanup.bundle_beats
             /\ UNCHANGED <<bundles, orders>>

\* variant: the cleanup runs whatever notify_user_via_bot returned
NotificationIgnored(step) == TRUE

\* lines 827, 838 and 876, `if notification_success`: notify_user_via_bot
\* returned True
NotificationSuccess(step) == step = "success"

\* lines 816-900: the gateway answers an attempt of the settlement's
\* notification; after the last one the delivery cleans up (on success only)
\* and returns
NotifyAttempt(d, Replies, Faults) ==
    /\ pc[d] = "notify"
    /\ \E reply \in Replies :
         LET step == NotifyStep(reply, loc[d].attempt)
         IN  IF step = "retry"
             THEN /\ loc' = [loc EXCEPT ![d].attempt = @ + 1,
                                        ![d].branch = ReplyBranch(reply),
                                        ![d].waits = Append(@, WaitTime(loc[d].attempt))]
                  /\ UNCHANGED <<store, orders, pc, resp>>
             ELSE /\ Respond(d, 200, "payment processed")
                  /\ IF NotificationSuccess(step)
                     THEN \E fault \in Faults : Cleanup(d, fault)
                     ELSE UNCHANGED <<store, orders>>
                  /\ loc' = [loc EXCEPT ![d].notification = step,
                                        ![d].branch = ReplyBranch(reply),
                                        ![d].body = BodyStatus(reply),
                                        ![d].removed = DOMAIN beats \ DOMAIN beats',
                                        ![d].steps = IF NotificationSuccess(step)
                                                     THEN @ \o CleanupSteps ELSE @]
    /\ UNCHANGED <<now, ledger, sent, ev, config, waiting>>

\* lines 676-686: the gateway answers an attempt of the re-sent notification
\* of an old order; whatever the outcome the delivery returns 200
RenotifyAttempt(d, Replies) ==
    /\ pc[d] = "renotify"
    /\ \E reply \in Replies :
         LET step == NotifyStep(reply, loc[d].attempt)
         IN  IF step = "retry"
             THEN /\ loc' = [loc EXCEPT ![d].attempt = @ + 1,
                                        ![d].branch = ReplyBranch(reply),
                                        ![d].waits = Append(@, WaitTime(loc[d].attempt))]
                  /\ UNCHANGED <<pc, resp>>
             ELSE /\ loc' = [loc EXCEPT ![d].notification = step,
                                        ![d].branch = ReplyBranch(reply),
                                        ![d].body = BodyStatus(reply)]
                  /\ Respond(d, 200, "already processed")
    /\ UNCHANGED <<now, store, orders, ledger, sent, ev, config, waiting>>

-----------------------------------------------------------------------------
(* The environment *)

InFlight(d) == pc[d] \notin {"idle", "done"}

\* time.time() advances.  Every await of a delivery is under a timeout of
\* seconds, so no delivery is in flight across a step of minutes.
TickBy(seconds) ==
    /\ now + seconds <= MaxNow
    /\ \A d \in DOMAIN pc : ~InFlight(d)
    /\ now' = now + seconds
    /\ UNCHANGED <<store, orders, ledger, sent, pc, ev, loc, resp, config, waiting>>

Tick == TickBy(TickSeconds)

\* the bot reserves an exclusive beat for a buyer who holds no reservation;
\* a beat under an active reservation cannot be reserved again
Reserve(user, b) ==
    /\ b \in DOMAIN beats
    /\ beats[b].is_exclusive = 1
    /\ beats[b].reserved_by_user_id = 0 \/ beats[b].reservation_expired
    /\ ActiveReservationsOf(beats, user) = {}
    /\ beats' = [beats EXCEPT ![b].reserved_by_user_id = user,
                              ![b].reservation_expired = FALSE]
    /\ UNCHANGED <<now, bundles, bundle_beats, orders, ledger, sent,
                   pc, ev, loc, resp, config, waiting>>

\* reservation_expires_at passes
Expire(b) ==
    /\ b \in DOMAIN beats
    /\ beats[b].reserved_by_user_id # 0
    /\ ~beats[b].reservation_expired
    /\ beats' = [beats EXCEPT ![b].reservation_expired = TRUE]
    /\ UNCHANGED <<now, bundles, bundle_beats, orders, ledger, sent,
                   pc, ev, loc, resp, config, waiting>>

-----------------------------------------------------------------------------
(* Verified capture events on a working store: the gateway answers ok,       *)
(* partial or error; the reservation collaborators answer or raise.  Buyer 1 *)
(* reserves through the bot; buyer 2 pays with a link and no reservation.    *)

CoreReplies == {"ok", "partial", "error"}
CoreUnavailable == {"none", "cleanup", "lookup"}
CoreLookups == {"found"}
CoreFaults == {"none"}
CoreReservers == {1}

Next ==
    \/ \E d \in DOMAIN pc, e \in CoreEvents : Receive(d, e, "SUCCESS")
    \/ \E d \in DOMAIN pc : Gate(d, CoreUnavailable)
    \/ \E d \in DOMAIN pc : Settle(d, CoreLookups, CoreUnavailable)
    \/ \E d \in DOMAIN pc : NotifyAttempt(d, CoreReplies, CoreFaults)
    \/ \E d \in DOMAIN pc : RenotifyAttempt(d, CoreReplies)
    \/ Tick
    \/ \E u \in CoreReservers, b \in DOMAIN beats : Reserve(u, b)
    \/ \E b \in DOMAIN beats : Expire(b)

Spec == Init /\ [][Next]_vars

-----------------------------------------------------------------------------
(* The gateway under failure: beside ok, partial and error it times out, so  *)
(* notify_user_via_bot runs through its retries.                             *)

GatewayReplies == {"ok", "partial", "error", "timeout"}

NextGateway ==
    \/ \E d \in DOMAIN pc, e \in {EvBuy1, EvBundle1} : Receive(d, e, "SUCCESS")
    \/ \E d \in DOMAIN pc : Gate(d, {"none"})
    \/ \E d \in DOMAIN pc : Settle(d, CoreLookups, {"none"})
    \/ \E d \in DOMAIN pc : NotifyAttempt(d, GatewayReplies, CoreFaults)
    \/ \E d \in DOMAIN pc : RenotifyAttempt(d, GatewayReplies)
    \/ Tick
    \/ \E u \in CoreReservers, b \in DOMAIN beats : Reserve(u, b)
    \/ \E b \in DOMAIN beats : Expire(b)

SpecGateway == Init /\ [][NextGateway]_vars

-----------------------------------------------------------------------------
(* The kinds of token: buyer 1 pays for the exclusive beat with a token of   *)
(* kind "beat" fetched from the provider or one of kind "item" carried by    *)
(* the capture itself.                                                       *)

\* the gateway accepts the message, for all users or for some
PlainReplies == {"ok", "partial"}

NextKinds ==
    \/ \E d \in DOMAIN pc, e \in {EvBuy1, EvItem1} : Receive(d, e, "SUCCESS")
    \/ \E d \in DOMAIN pc : Gate(d, {"none"})
    \/ \E d \in DOMAIN pc : Settle(d, CoreLookups, {"none"})
    \/ \E d \in DOMAIN pc : NotifyAttempt(d, PlainReplies, CoreFaults)
    \/ \E d \in DOMAIN pc : RenotifyAttempt(d, PlainReplies)
    \/ Tick
    \/ \E u \in CoreReservers, b \in DOMAIN beats : Reserve(u, b)
    \/ \E b \in DOMAIN beats : Expire(b)

SpecKinds == Init /\ [][NextKinds]_vars

-----------------------------------------------------------------------------
(* Redelivery: the provider delivers an event again, minutes later; the      *)
(* clock moves in steps shorter than the five-minute windows.                *)

\* number of deliveries in a behaviour of redeliveries
MaxRedeliveries == 3
\* seconds the clock advances in one step of a behaviour of redeliveries
RedeliverySeconds == 200

NextRedelivery ==
    \/ \E d \in DOMAIN pc, e \in {EvBuy1, EvBuy1Again, EvBuy2} :
          Receive(d, e, "SUCCESS")
    \/ \E d \in DOMAIN pc : Gate(d, {"none"})
    \/ \E d \in DOMAIN pc : Settle(d, CoreLookups, {"none"})
    \/ \E d \in DOMAIN pc : NotifyAttempt(d, PlainReplies, CoreFaults)
    \/ \E d \in DOMAIN pc : RenotifyAttempt(d, PlainReplies)
    \/ TickBy(RedeliverySeconds)
    \/ \E u \in CoreReservers, b \in DOMAIN beats : Reserve(u, b)

SpecRedelivery ==
    /\ InitWith(MixedCatalog, Production, 1..MaxRedeliveries)
    /\ [][NextRedelivery]_vars

-----------------------------------------------------------------------------
(* The ledger under failure: any call of its try block may raise (the file   *)
(* cannot be opened, the database is locked, the disk is full).              *)

NextLedger ==
    \/ \E d \in DOMAIN pc, e \in {EvBuy1, EvBuy1Again, EvItem1} :
          Receive(d, e, "SUCCESS")
    \/ \E d \in DOMAIN pc :
          GateWith(d, {"none", "open", "prune", "lookup", "insert", "commit"},
                   {"none"})
    \/ \E d \in DOMAIN pc : Settle(d, CoreLookups, {"none"})
    \/ \E d \in DOMAIN pc : NotifyAttempt(d, PlainReplies, CoreFaults)
    \/ \E d \in DOMAIN pc : RenotifyAttempt(d, PlainReplies)
    \/ Tick
    \/ \E u \in CoreReservers, b \in DOMAIN beats : Reserve(u, b)

SpecLedger == Init /\ [][NextLedger]_vars

-----------------------------------------------------------------------------
(* Bundles: beside "Summer Pack" (beats 7, 8, 9; 20 percent) the catalog     *)
(* holds the exclusive beat 10 "Neon" (50), the bundle "Night Pack" of the   *)
(* exclusive beats 7 and 10 (5 percent) and the bundle "Dusk Pack" of beat   *)
(* 10 and the standard beat 9 (5 percent).  Beat 7 and beat 10 are each in   *)
(* two bundles.                                                              *)

TitleNeon == <<"Neon">>
NameNight == <<"Night", " ", "Pack">>
NameDusk == <<"Dusk", " ", "Pack">>

BundleCatalog ==
    [beats |-> MixedCatalog.beats @@ (10 :> BeatRow(TitleNeon, 1, 50)),
     bundles |-> (1 :> BundleRow(NameSummer, 100, 20, 80)) @@
                 (2 :> BundleRow(NameNight, 80, 5, 76)) @@
                 (3 :> BundleRow(NameDusk, 80, 5, 76)),
     bundle_beats |-> {<<1, 7>>, <<1, 8>>, <<1, 9>>, <<2, 7>>, <<2, 10>>,
                       <<3, 10>>, <<3, 9>>}]

\* buyer 2 pays for "Night Pack", buyer 1 for "Dusk Pack"
EvNight2 ==
    CaptureEvent("e6", "t5", Token("2", KindBundle, <<"Night", "_", "Pack">>))
EvDusk1 ==
    CaptureEvent("e7", "t6", Token("1", KindBundle, <<"Dusk", "_", "Pack">>))

InitBundles == InitWith(BundleCatalog, Production, Deliveries)

NextBundles ==
    \/ \E d \in DOMAIN pc, e \in {EvBuy1, EvBundle1, EvNight2, EvDusk1} :
          Receive(d, e, "SUCCESS")
    \/ \E d \in DOMAIN pc : Gate(d, {"none"})
    \/ \E d \in DOMAIN pc : Settle(d, CoreLookups, {"none"})
    \/ \E d \in DOMAIN pc : NotifyAttempt(d, PlainReplies, CoreFaults)
    \/ \E d \in DOMAIN pc : RenotifyAttempt(d, PlainReplies)
    \/ Tick
    \/ \E u \in CoreReservers, b \in DOMAIN beats : Reserve(u, b)

SpecBundles == InitBundles /\ [][NextBundles]_vars

-----------------------------------------------------------------------------
(* Resolution: the provider's answer to the order lookup varies; an event    *)
(* may carry no token anywhere, with or without an order id to look up.      *)

\* no token on the capture nor in the provider's order
EvSimulation == CaptureEvent("e8", "t7", NoneStr)
\* no token and no order id
EvNoToken == [CaptureEvent("e9", "t8", NoneStr) EXCEPT !.has_order_id = FALSE]
\* the provider's order carries a custom_id that is no token (no ':')
EvGarbled == CaptureEvent("e12", "t10", <<"garbage">>)
\* the same transaction under another event id
EvGarbledAgain == CaptureEvent("e13", "t10", <<"garbage">>)
\* a token whose buyer is 0, and a capture without payer and amount
EvZeroBuyer ==
    [CaptureEvent("e14", "t11", TokMidnight("0")) EXCEPT
        !.payer_email = "", !.amount_value = "", !.currency_code = ""]

NextResolution ==
    \/ \E d \in DOMAIN pc, e \in {EvBuy1, EvSimulation, EvNoToken} :
          Receive(d, e, "SUCCESS")
    \/ \E d \in DOMAIN pc : Gate(d, {"none"})
    \/ \E d \in DOMAIN pc :
          Settle(d, {"found", "no_units", "not_found", "error_status",
                     "token_failure", "exception"}, {"none"})
    \/ \E d \in DOMAIN pc : NotifyAttempt(d, PlainReplies, CoreFaults)
    \/ \E d \in DOMAIN pc : RenotifyAttempt(d, PlainReplies)
    \/ Tick
    \/ \E u \in CoreReservers, b \in DOMAIN beats : Reserve(u, b)

SpecResolution == Init /\ [][NextResolution]_vars

-----------------------------------------------------------------------------
(* Cleanup: after a successful notification the release of the reservation   *)
(* or the removal of the sold inventory may raise; the error is logged.      *)

NextCleanup ==
    \/ \E d \in DOMAIN pc, e \in {EvBuy1, EvNight2, EvDusk1} :
          Receive(d, e, "SUCCESS")
    \/ \E d \in DOMAIN pc : Gate(d, {"none"})
    \/ \E d \in DOMAIN pc : Settle(d, CoreLookups, {"none"})
    \/ \E d \in DOMAIN pc :
          NotifyAttempt(d, PlainReplies, {"none", "release", "cleanup"})
    \/ \E d \in DOMAIN pc : RenotifyAttempt(d, PlainReplies)
    \/ Tick
    \/ \E u \in CoreReservers, b \in DOMAIN beats : Reserve(u, b)

SpecCleanup == InitBundles /\ [][NextCleanup]_vars

-----------------------------------------------------------------------------
(* Dispatch and verification: every event type, every verdict of the         *)
(* signature oracle, every setting of ENVIRONMENT and                        *)
(* SKIP_WEBHOOK_VERIFICATION.                                                *)

NextDispatch ==
    \/ \E d \in DOMAIN pc, e \in {EvBuy1, EvApproved1, EvDenied},
          oracle \in {"SUCCESS", "FAILURE", "ERROR"} :
          Receive(d, e, oracle)
    \/ \E d \in DOMAIN pc : Approve(d, CoreLookups)
    \/ \E d \in DOMAIN pc : Gate(d, {"none"})
    \/ \E d \in DOMAIN pc : Settle(d, CoreLookups, {"none"})
    \/ \E d \in DOMAIN pc : NotifyAttempt(d, PlainReplies, CoreFaults)
    \/ \E d \in DOMAIN pc : RenotifyAttempt(d, PlainReplies)
    \/ Tick
    \/ \E u \in CoreReservers, b \in DOMAIN beats : Reserve(u, b)

SpecDispatch ==
    /\ \E cfg \in [environment : {"production", "development"},
                  skip_verification : BOOLEAN] :
          InitWith(MixedCatalog, cfg, Deliveries)
    /\ [][NextDispatch]_vars

-----------------------------------------------------------------------------
(* Unresolvable events: no token, a custom_id that is no token, buyer 0.     *)

NextDebug ==
    \/ \E d \in DOMAIN pc,
          e \in {EvBuy1, EvNoToken, EvGarbled, EvGarbledAgain, EvZeroBuyer} :
          Receive(d, e, "SUCCESS")
    \/ \E d \in DOMAIN pc : Gate(d, {"none"})
    \/ \E d \in DOMAIN pc : Settle(d, CoreLookups, {"none"})
    \/ \E d \in DOMAIN pc : NotifyAttempt(d, PlainReplies, CoreFaults)
    \/ \E d \in DOMAIN pc : RenotifyAttempt(d, PlainReplies)
    \/ Tick
    \/ \E u \in CoreReservers, b \in DOMAIN beats : Reserve(u, b)

SpecDebug == Init /\ [][NextDebug]_vars

-----------------------------------------------------------------------------
(* Standard beats: one on sale, one withdrawn from sale (available = 0), one *)
(* that is not in the catalog.                                               *)

StandardCatalog ==
    [MixedCatalog EXCEPT !.beats = [@ EXCEPT ![9].available = 0]]

EvSunset1 == CaptureEvent("e15", "t12", Token("1", KindBeat, <<"Sunset">>))
EvDawn1 == CaptureEvent("e16", "t13", Token("1", KindBeat, <<"Dawn">>))
EvGhost1 == CaptureEvent("e17", "t14", Token("1", KindBeat, <<"Ghost">>))

NextStandard ==
    \/ \E d \in DOMAIN pc, e \in {EvSunset1, EvDawn1, EvGhost1} :
          Receive(d, e, "SUCCESS")
    \/ \E d \in DOMAIN pc : Gate(d, {"none"})
    \/ \E d \in DOMAIN pc : Settle(d, CoreLookups, {"none"})
    \/ \E d \in DOMAIN pc : NotifyAttempt(d, PlainReplies, CoreFaults)
    \/ \E d \in DOMAIN pc : RenotifyAttempt(d, PlainReplies)
    \/ Tick
    \/ \E u \in CoreReservers, b \in DOMAIN beats : Reserve(u, b)

SpecStandard ==
    /\ InitWith(StandardCatalog, Production, Deliveries)
    /\ [][NextStandard]_vars

-----------------------------------------------------------------------------
(* Bundle validation: a bundle without members, and a token that names no    *)
(* bundle of the catalog.                                                    *)

NameEmpty == <<"Empty", " ", "Pack">>

BundleCheckCatalog ==
    [BundleCatalog EXCEPT !.bundles = @ @@ (4 :> BundleRow(NameEmpty, 0, 10, 0))]

EvEmptyPack1 ==
    CaptureEvent("e18", "t15", Token("1", KindBundle, <<"Empty", "_", "Pack">>))
EvGhostPack1 ==
    CaptureEvent("e19", "t16", Token("1", KindBundle, <<"Ghost", "_", "Pack">>))

NextBundleCheck ==
    \/ \E d \in DOMAIN pc,
          e \in {EvNight2, EvBundle1, EvEmptyPack1, EvGhostPack1} :
          Receive(d, e, "SUCCESS")
    \/ \E d \in DOMAIN pc : Gate(d, {"none"})
    \/ \E d \in DOMAIN pc : Settle(d, CoreLookups, {"none"})
    \/ \E d \in DOMAIN pc : NotifyAttempt(d, PlainReplies, CoreFaults)
    \/ \E d \in DOMAIN pc : RenotifyAttempt(d, PlainReplies)
    \/ Tick
    \/ \E u \in CoreReservers, b \in DOMAIN beats : Reserve(u, b)

SpecBundleCheck ==
    /\ InitWith(BundleCheckCatalog, Production, Deliveries)
    /\ [][NextBundleCheck]_vars

-----------------------------------------------------------------------------
(* Retries: the gateway answers 200 with any body, a 4xx, a 5xx, or not at   *)
(* all.                                                                      *)

RetryReplies ==
    {"ok", "partial", "error", "unknown", "unparsable", "4xx", "5xx", "timeout",
     "network"}

NextRetry ==
    \/ \E d \in DOMAIN pc, e \in {EvBuy1, EvBundle1} : Receive(d, e, "SUCCESS")
    \/ \E d \in DOMAIN pc : Gate(d, {"none"})
    \/ \E d \in DOMAIN pc : Settle(d, CoreLookups, {"none"})
    \/ \E d \in DOMAIN pc : NotifyAttempt(d, RetryReplies, CoreFaults)
    \/ \E d \in DOMAIN pc : RenotifyAttempt(d, RetryReplies)
    \/ Tick
    \/ \E u \in CoreReservers, b \in DOMAIN beats : Reserve(u, b)

SpecRetry == Init /\ [][NextRetry]_vars

-----------------------------------------------------------------------------
(* A bundle of standard beats only: "Day Pack" of beats 8 and 9, priced by   *)
(* its members at 5 percent.                                                 *)

DayCatalog ==
    [BundleCatalog EXCEPT
        !.bundles = @ @@ (4 :> BundleRow(<<"Day", " ", "Pack">>, 70, 5, 66)),
        !.bundle_beats = @ \cup {<<4, 8>>, <<4, 9>>}]

EvDay1 ==
    CaptureEvent("e20", "t17", Token("1", KindBundle, <<"Day", "_", "Pack">>))

NextDay ==
    \/ \E d \in DOMAIN pc, e \in {EvDay1, EvBundle1} : Receive(d, e, "SUCCESS")
    \/ \E d \in DOMAIN pc : Gate(d, {"none"})
    \/ \E d \in DOMAIN pc : Settle(d, CoreLookups, {"none"})
    \/ \E d \in DOMAIN pc : NotifyAttempt(d, PlainReplies, CoreFaults)
    \/ \E d \in DOMAIN pc : RenotifyAttempt(d, PlainReplies)
    \/ Tick
    \/ \E u \in CoreReservers, b \in DOMAIN beats : Reserve(u, b)

SpecDay ==
    /\ InitWith(DayCatalog, Production, Deliveries)
    /\ [][NextDay]_vars

-----------------------------------------------------------------------------
(* Errors at every stage: the ledger, the reservation collaborators and the  *)
(* cleanup may raise, the gateway may time out, the beat may be unknown, the *)
(* transaction may be settled twice.                                         *)

NextErrors ==
    \/ \E d \in DOMAIN pc, e \in {EvBuy1, EvGhost1} :
          Receive(d, e, "SUCCESS")
    \/ \E d \in DOMAIN pc : GateWith(d, {"none", "lookup"}, {"none"})
    \/ \E d \in DOMAIN pc : Settle(d, CoreLookups, {"none", "lookup"})
    \/ \E d \in DOMAIN pc :
          NotifyAttempt(d, {"ok", "timeout"}, {"none", "cleanup"})
    \/ \E d \in DOMAIN pc : RenotifyAttempt(d, {"ok", "timeout"})
    \/ Tick

SpecErrors == Init /\ [][NextErrors]_vars

-----------------------------------------------------------------------------
(* Properties *)

Txns == {e.txn : e \in CoreEvents}

\* the deliveries that have executed a db.commit() of an Order
ReachedPersist(d) == loc[d].persisted # "no"

OrdersOf(txn) == {o \in orders : o.transaction_id = txn}

\* C1: for every transaction id the order store holds at most one Order row,
\* and exactly one as soon as a capture delivery carrying the id has executed
\* the commit of its Order, whatever the event ids and the interleaving.
C1_OneOrderPerTransaction ==
    \A t \in Txns :
        /\ Cardinality(OrdersOf(t)) <= 1
        /\ (\E d \in DOMAIN pc : ev[d].txn = t /\ ReachedPersist(d))
               => Cardinality(OrdersOf(t)) = 1

\* two deliveries of one transaction id under different event ids have both
\* executed the commit; one row is in the store
C1_Witness ==
    \E d1, d2 \in DOMAIN pc :
        /\ d1 # d2
        /\ ev[d1].txn = ev[d2].txn
        /\ ev[d1].id # ev[d2].id
        /\ loc[d1].persisted = "committed"
        /\ loc[d2].persisted = "integrity_error"
        /\ Cardinality(OrdersOf(ev[d1].txn)) = 1

\* C2: a capture delivery for a standalone exclusive beat whose buyer holds
\* no active reservation, or one for another beat, is rejected with 409: it
\* persists no Order and sends no notification.
C2_InvalidReservationRejected ==
    \A d \in DOMAIN pc :
        loc[d].check = "invalid" =>
            /\ pc[d] = "done"
            /\ resp[d].status = 409
            /\ loc[d].persisted = "no"
            /\ \A s \in sent : s.by # d

\* the orders of standalone purchases of the beat with this title
StandaloneOrdersFor(title) ==
    {o \in orders : o.beat_title = title /\ o.order_type = KindBeat}

\* C3: an exclusive beat is never sold twice: of the deliveries with
\* different transaction ids that name the same standalone exclusive beat,
\* at most one persists an Order for it.
C3_ExclusiveSoldOnce ==
    \A b \in DOMAIN MixedCatalog.beats :
        MixedCatalog.beats[b].is_exclusive = 1 =>
            Cardinality({o.transaction_id :
                            o \in StandaloneOrdersFor(MixedCatalog.beats[b].title)}) <= 1

\* the delivery that takes this step
Acts(d) == pc'[d] # pc[d] \/ loc'[d] # loc[d]

\* C4: a delivery whose notification does not end in success (the gateway
\* answered partial or error, or every attempt failed) deletes no beat,
\* deletes or reprices no bundle, removes no membership row and releases no
\* reservation: the step in which it returns leaves beats, bundles and
\* bundle_beats as they were; and only the gateway's ok counts as success.
C4_FailedNotificationKeepsInventory ==
    /\ [][\A d \in DOMAIN pc :
            (pc[d] = "notify" /\ Acts(d) /\ loc'[d].notification # "success")
                => UNCHANGED store]_vars
    /\ \A r \in {"ok", "partial", "error", "unknown", "unparsable", "4xx", "5xx",
                 "timeout", "network"}, a \in 0..(MaxRetries - 1) :
            NotifyStep(r, a) = "success" => r = "ok"

\* a delivery for the exclusive beat reserved by its buyer has returned after
\* the last attempt of its notification failed: the beat is in the catalog,
\* still reserved
C4_Witness ==
    \E d \in DOMAIN pc :
        /\ pc[d] = "done"
        /\ loc[d].persisted = "committed"
        /\ loc[d].notification = "failure"
        /\ loc[d].attempt = MaxRetries - 1
        /\ loc[d].check = "valid"
        /\ 7 \in DOMAIN beats
        /\ beats[7].reserved_by_user_id = loc[d].telegram_user_id
        /\ ~beats[7].reservation_expired
        /\ <<1, 7>> \in bundle_beats

\* the delivery has been let through the gate as a new payment
LetThrough(d) == pc[d] \in {"resolve", "notify"} \/ loc[d].persisted # "no"

\* the delivery has been answered 200 as a duplicate, or is on its way there
NoOpOutcome(d) ==
    /\ pc[d] \in {"renotify", "done"}
    /\ pc[d] = "done" =>
          /\ resp[d].status = 200
          /\ resp[d].detail \in {"duplicate webhook event", "already processed"}
    /\ loc[d].persisted = "no"
    /\ loc[d].removed = {}

\* both deliveries of the event have left the gate
BothPastGate(d1, d2) ==
    /\ d1 # d2
    /\ ev[d1] = ev[d2]
    /\ pc[d1] \notin {"idle", "gate"}
    /\ pc[d2] \notin {"idle", "gate"}

SentFor(txn) == {s \in sent : s.transaction_id = txn}

\* C6 as stated: for every transaction id the gateway is called for at most
\* one delivery; after one delivery has sent the notification no later
\* delivery sends another.
C6_OneNotificationPerTransaction ==
    \A t \in Txns : Cardinality(SentFor(t)) <= 1

\* C6 (amended): for every transaction id at most one delivery sends the
\* notification as the settlement of a new Order; a further notification is
\* sent only by a delivery that finds the Order of the transaction at least
\* five minutes old, and that delivery re-sends the stored order and
\* persists nothing.
C6_OneFulfilmentUnlessOldOrder ==
    /\ [](\A t \in Txns :
            Cardinality({s \in SentFor(t) : loc[s.by].persisted = "committed"}) <= 1)
    /\ [][\A s \in sent' \ sent :
            SentFor(s.transaction_id) # {} =>
                /\ orders' = orders
                /\ pc'[s.by] = "renotify"
                /\ \E o \in orders :
                      /\ o.transaction_id = s.transaction_id
                      /\ now - o.created_at >= OrderRecentWindow
                      /\ s = Payload(s.by, o.telegram_user_id, o.beat_title,
                                     o.bundle_id, o.order_type, o.transaction_id)]_vars

\* a transaction notified at its settlement has been notified again by a
\* delivery that found the order old
C6_Witness ==
    \E d1, d2 \in DOMAIN pc :
        /\ d1 # d2
        /\ ev[d1].txn = ev[d2].txn
        /\ loc[d1].persisted = "committed"
        /\ loc[d1].notification = "success"
        /\ loc[d2].persisted = "no"
        /\ \E s1, s2 \in SentFor(ev[d1].txn) : s1.by = d1 /\ s2.by = d2

\* the delivery has resolved the token of a payment of buyer 1 for "Midnight
\* Drive"; with a token of kind "beat" the reservation check found the
\* buyer's reservation of the beat (a token of kind "item" passes unchecked)
PaysForMidnight(d) ==
    /\ ev[d] \in {EvBuy1, EvItem1}
    /\ loc[d].telegram_user_id = 1
    /\ ev[d] = EvBuy1 => loc[d].check = "valid"

\* C7: a delivery whose token buyer:kind:Title names an exclusive beat under
\* the buyer's active reservation persists the Order; when the gateway
\* answers ok it returns 200 and the beat and its bundle membership rows are
\* gone from the store.
C7_HappyPath ==
    \A d \in DOMAIN pc :
        PaysForMidnight(d) =>
            /\ loc[d].persisted = "committed"
            /\ \E o \in orders :
                  /\ o.transaction_id = ev[d].txn
                  /\ o.telegram_user_id = 1
                  /\ o.beat_title = TitleMidnight
            /\ (pc[d] = "done" /\ loc[d].notification = "success") =>
                  /\ resp[d] = [status |-> 200, detail |-> "payment processed"]
                  /\ 7 \notin DOMAIN beats
                  /\ \A r \in bundle_beats : r[2] # 7

\* the delivery of the token 1:beat:Midnight_Drive, whose buyer held the
\* reservation of beat 7, has returned 200 after the gateway's ok and has
\* deleted the beat with its membership row
C7_Witness ==
    \E d \in DOMAIN pc :
        /\ ev[d] = EvBuy1
        /\ loc[d].check = "valid"
        /\ pc[d] = "done"
        /\ loc[d].notification = "success"
        /\ loc[d].removed = {7}
        /\ resp[d].status = 200
        /\ <<1, 7>> \notin bundle_beats
        /\ \E o \in orders : o.transaction_id = "t1" /\ o.order_type = KindBeat

\* C8: when cleanup_expired_reservations or get_user_active_reservation
\* raises, the delivery is not rejected: it goes on to the commit of the
\* Order, and having committed it calls the gateway.
C8_FailOpen ==
    \A d \in DOMAIN pc :
        loc[d].check = "error" =>
            /\ ReachedPersist(d)
            /\ resp[d].status \notin {404, 409}
            /\ loc[d].persisted = "committed" =>
                  /\ \E o \in orders : o.id = d /\ o.transaction_id = ev[d].txn
                  /\ \E s \in sent : s.by = d /\ s.transaction_id = ev[d].txn

\* buyer 2, who holds no reservation, has paid for the exclusive beat while
\* the reservation lookup raised: the order is saved and the gateway called
C8_Witness ==
    \E d \in DOMAIN pc :
        /\ ev[d] = EvBuy2
        /\ loc[d].check = "error"
        /\ loc[d].persisted = "committed"
        /\ pc[d] = "notify"
        /\ \E s \in sent : s.by = d /\ s.user_id = 2

\* the delivery leaves the gate in this step
LeavesGate(d) == pc[d] = "gate" /\ pc'[d] # "gate"

\* the ledger holds the delivery's event id, entered at most five minutes ago
EventInLedgerWindow(d) ==
    \E r \in ledger : r.webhook_id = ev[d].id /\ now - r.timestamp <= LedgerWindow

\* the delivery's transaction has an Order younger than five minutes
HasYoungOrder(d) ==
    \E o \in orders :
        o.transaction_id = ev[d].txn /\ now - o.created_at < OrderRecentWindow

\* the delivery's transaction has an Order at least five minutes old
HasOldOrder(d) ==
    \E o \in orders :
        o.transaction_id = ev[d].txn /\ now - o.created_at >= OrderRecentWindow

\* C9: a delivery that comes to the gate when its transaction has an Order
\* younger than five minutes, or when its event id is in the ledger within
\* the five-minute window, returns 200 at once: no Order is persisted, no
\* notification sent, no reservation released, no beat or bundle changed.
C9_GateNoOp ==
    [][\A d \in DOMAIN pc :
          (LeavesGate(d) /\ (EventInLedgerWindow(d) \/ HasYoungOrder(d))) =>
              /\ pc'[d] = "done"
              /\ resp'[d].status = 200
              /\ resp'[d].detail \in {"duplicate webhook event", "already processed"}
              /\ UNCHANGED <<orders, sent, store>>
              /\ loc'[d] = loc[d]]_vars

\* a delivery under an event id the ledger had not seen was stopped by the
\* young Order that another delivery had persisted for its transaction
C9_Witness ==
    \E d1, d2 \in DOMAIN pc :
        /\ pc[d1] = "done"
        /\ resp[d1] = [status |-> 200, detail |-> "already processed"]
        /\ loc[d1].notification = "none"
        /\ ~(\E r \in ledger : r.webhook_id = ev[d1].id /\ r.timestamp < now)
        /\ HasYoungOrder(d1)
        /\ d2 # d1
        /\ loc[d2].persisted = "committed"
        /\ ev[d2].id # ev[d1].id

\* what a delivery that finds an Order of its transaction re-sends
StoredPayload(d) ==
    {Payload(d, o.telegram_user_id, o.beat_title, o.bundle_id, o.order_type,
             o.transaction_id) : o \in ExistsTxn(orders, ev[d].txn)}

\* the re-sent notification of a delivery is under way or over: whatever the
\* gateway answers, nothing is persisted, released or removed, and the
\* delivery returns 200
RenotifyFrame ==
    \A d \in DOMAIN pc :
        (pc[d] = "renotify" /\ Acts(d)) =>
            /\ UNCHANGED <<orders, sent, store>>
            /\ pc'[d] = "done" =>
                  resp'[d] = [status |-> 200, detail |-> "already processed"]

\* C10 as stated: every delivery that comes to the gate when the Order of
\* its transaction is older than five minutes calls the gateway with the
\* stored buyer, title, bundle id and kind, persists, releases and removes
\* nothing, and answers 200.
C10_OldOrderRenotified ==
    [][/\ \A d \in DOMAIN pc :
            (LeavesGate(d) /\ HasOldOrder(d)) =>
                /\ pc'[d] = "renotify"
                /\ sent' = sent \cup StoredPayload(d)
                /\ UNCHANGED <<orders, store>>
       /\ RenotifyFrame]_vars

\* C10 (amended): a delivery that comes to the gate when the Order of its
\* transaction is at least five minutes old, and whose event id is not in
\* the ledger within the five-minute window, calls the gateway with the
\* stored buyer, title, bundle id and kind, persists, releases and removes
\* nothing, whatever the gateway answers, and answers 200; one whose event
\* id is in the ledger window is answered 200 without a call of the gateway.
C10_OldOrderRenotifiedUnlessInLedger ==
    [][/\ \A d \in DOMAIN pc :
            (LeavesGate(d) /\ HasOldOrder(d)) =>
                /\ UNCHANGED <<orders, store>>
                /\ IF EventInLedgerWindow(d)
                   THEN /\ sent' = sent
                        /\ resp'[d] = [status |-> 200,
                                       detail |-> "duplicate webhook event"]
                   ELSE /\ pc'[d] = "renotify"
                        /\ sent' = sent \cup StoredPayload(d)
                        /\ StoredPayload(d) \cap sent = {}
       /\ RenotifyFrame]_vars

\* the notification of an old order has been sent again, the gateway
\* answered partial or error, and the delivery returned 200; the order is
\* the one row of its transaction
C10_Witness ==
    \E d \in DOMAIN pc :
        /\ pc[d] = "done"
        /\ HasOldOrder(d)
        /\ loc[d].notification = "failure"
        /\ loc[d].persisted = "no"
        /\ resp[d] = [status |-> 200, detail |-> "already processed"]
        /\ \E s \in sent : s.by = d /\ s.beat_title = TitleMidnight /\ s.user_id = 1
        /\ Cardinality(ExistsTxn(orders, ev[d].txn)) = 1

\* the entries of the ledger under the delivery's event id
LedgerEntriesOf(d) == {r \in ledger : r.webhook_id = ev[d].id}

\* C11: every ledger check prunes first: a delivery whose event id has only
\* an entry older than 300 seconds is not answered as a duplicate and the
\* entry is replaced by a new one, while a delivery whose event id has an
\* entry younger than 300 seconds is always answered as a duplicate; the
\* ledger holds one entry per event id and, after a check that let the
\* delivery through, none older than 300 seconds.
C11_LedgerExpiry ==
    /\ [](\A r1, r2 \in ledger : r1.webhook_id = r2.webhook_id => r1 = r2)
    /\ [][\A d \in DOMAIN pc :
            LeavesGate(d) =>
                /\ (\E r \in LedgerEntriesOf(d) : now - r.timestamp < LedgerWindow)
                      => /\ pc'[d] = "done"
                         /\ resp'[d] = [status |-> 200,
                                        detail |-> "duplicate webhook event"]
                /\ (/\ LedgerEntriesOf(d) # {}
                    /\ \A r \in LedgerEntriesOf(d) : now - r.timestamp > LedgerWindow)
                      => /\ resp'[d].detail # "duplicate webhook event"
                         /\ \A r \in ledger' : now - r.timestamp <= LedgerWindow
                         /\ \E r \in ledger' :
                               r.webhook_id = ev[d].id /\ r.timestamp = now]_vars

\* an event answered as a duplicate at its second delivery has been let
\* through the ledger at its third, more than 300 seconds after its entry
C11_Witness ==
    \E d1, d2, d3 \in DOMAIN pc :
        /\ d1 < d2 /\ d2 < d3
        /\ ev[d2] = ev[d1] /\ ev[d3] = ev[d1]
        /\ resp[d2].detail = "duplicate webhook event"
        /\ pc[d3] \notin {"idle", "gate"}
        /\ resp[d3].detail # "duplicate webhook event"
        /\ \E r \in ledger : r.webhook_id = ev[d3].id /\ r.timestamp = now /\ now > LedgerWindow

\* C12: a delivery in whose ledger check a call raised (open, prune, lookup,
\* insert or commit) is not failed and not answered as a duplicate: the
\* ledger is left as it was and the delivery goes on as a delivery without
\* a ledger hit does: answered 200 at once on a young Order of its
\* transaction, re-sending the notification of an old one, and otherwise
\* resolving its token and settling.
C12_LedgerFailureSwallowed ==
    [][\A d \in DOMAIN pc :
          (LeavesGate(d) /\ loc'[d].cache_error) =>
              /\ ledger' = ledger
              /\ resp'[d].detail # "duplicate webhook event"
              /\ IF HasYoungOrder(d)
                 THEN /\ pc'[d] = "done"
                      /\ resp'[d] = [status |-> 200, detail |-> "already processed"]
                      /\ UNCHANGED <<orders, sent, store>>
                 ELSE IF HasOldOrder(d)
                 THEN /\ pc'[d] = "renotify"
                      /\ sent' = sent \cup StoredPayload(d)
                      /\ UNCHANGED <<orders, store>>
                 ELSE IF AwaitsLookup(ev[d])
                 THEN pc'[d] = "resolve" /\ UNCHANGED <<orders, sent, store>>
                 ELSE /\ pc'[d] = "notify"
                      /\ loc'[d].persisted = "committed"
                      /\ \E o \in orders' : o.id = d /\ o.transaction_id = ev[d].txn]_vars

\* both deliveries of one event met a failing ledger; the first has settled
\* and deleted the beat, the second was stopped by the Order alone
C12_Witness ==
    \E d1, d2 \in DOMAIN pc :
        /\ d1 # d2
        /\ ev[d1] = ev[d2]
        /\ loc[d1].cache_error /\ loc[d2].cache_error
        /\ ledger = {}
        /\ loc[d1].persisted = "committed"
        /\ loc[d1].removed = {7}
        /\ resp[d2] = [status |-> 200, detail |-> "already processed"]

\* the delivery returns in this step from the successful notification of a
\* bundle order
FulfilsBundle(d) ==
    /\ pc[d] = "notify" /\ pc'[d] = "done"
    /\ loc'[d].notification = "success"
    /\ loc[d].order_type = KindBundle
    /\ loc[d].bundle_id # 0

\* nothing is ever added to the catalog
CatalogOnlyShrinks ==
    /\ DOMAIN beats' \subseteq DOMAIN beats
    /\ DOMAIN bundles' \subseteq DOMAIN bundles
    /\ bundle_beats' \subseteq bundle_beats

\* C13: when a bundle order is fulfilled with notification success and every
\* member of the bundle is exclusive, the bundle, its member beats and its
\* membership rows are gone when the delivery returns, and stay gone.
C13_ExclusiveBundleDeleted ==
    [][/\ CatalogOnlyShrinks
       /\ \A d \in DOMAIN pc :
            LET b == loc[d].bundle_id
                members == BeatsInBundle(beats, bundle_beats, b)
            IN  (/\ FulfilsBundle(d)
                 /\ \A m \in members : beats[m].is_exclusive = 1) =>
                    /\ b \notin DOMAIN bundles'
                    /\ members \cap DOMAIN beats' = {}
                    /\ \A r \in bundle_beats' : r[1] # b /\ r[2] \notin members]_vars

\* the order of "Night Pack" has been fulfilled: the bundle and its beats 7
\* and 10 are deleted, no membership row of bundle 2 is left
C13_Witness ==
    \E d \in DOMAIN pc :
        /\ ev[d] = EvNight2
        /\ pc[d] = "done"
        /\ loc[d].notification = "success"
        /\ loc[d].bundle_id = 2
        /\ loc[d].removed = {7, 10}
        /\ 2 \notin DOMAIN bundles
        /\ \A r \in bundle_beats : r[1] # 2

\* the members of a bundle, read off the tables bs and bb
MembersIn(bs, bb, b) == {m \in DOMAIN bs : <<b, m>> \in bb}

\* C14: when a bundle order is fulfilled with notification success and the
\* bundle has exclusive and non-exclusive members, the bundle still exists
\* when the delivery returns, its membership is exactly its previous
\* non-exclusive members, which are untouched, and every previous exclusive
\* member is deleted.
C14_MixedBundleKeepsStandardMembers ==
    [][\A d \in DOMAIN pc :
          LET b == loc[d].bundle_id
              members == MembersIn(beats, bundle_beats, b)
              exclusive == {m \in members : beats[m].is_exclusive = 1}
              standard == members \ exclusive
          IN  (/\ FulfilsBundle(d)
               /\ b \in DOMAIN bundles
               /\ exclusive # {} /\ standard # {}) =>
                  /\ b \in DOMAIN bundles'
                  /\ MembersIn(beats', bundle_beats', b) = standard
                  /\ {r \in bundle_beats' : r[1] = b} = {<<b, m>> : m \in standard}
                  /\ exclusive \cap DOMAIN beats' = {}
                  /\ \A m \in standard : beats'[m] = beats[m]]_vars

\* the order of "Summer Pack" has been fulfilled: beat 7 is deleted, the
\* bundle is left with beats 8 and 9
C14_Witness ==
    \E d \in DOMAIN pc :
        /\ ev[d] = EvBundle1
        /\ pc[d] = "done"
        /\ loc[d].notification = "success"
        /\ loc[d].removed = {7}
        /\ 1 \in DOMAIN bundles
        /\ MembersIn(beats, bundle_beats, 1) = {8, 9}

\* C15: when a bundle order is fulfilled with notification success and the
\* bundle keeps non-exclusive members, the bundle is repriced:
\* individual_price is the sum of the prices of the remaining members,
\* discount_percent the greater of the original discount_percent and 10, and
\* bundle_price is individual_price * (100 - discount_percent) / 100.
C15_ShrunkBundleRepriced ==
    [][\A d \in DOMAIN pc :
          LET b == loc[d].bundle_id
              members == MembersIn(beats, bundle_beats, b)
              standard == {m \in members : beats[m].is_exclusive = 0}
          IN  (FulfilsBundle(d) /\ b \in DOMAIN bundles /\ standard # {}) =>
                  LET new == bundles'[b]
                      old == bundles[b]
                  IN  /\ new.individual_price = SumPrice(beats, standard)
                      /\ new.discount_percent >= old.discount_percent
                      /\ new.discount_percent >= 10
                      /\ new.discount_percent \in {old.discount_percent, 10}
                      /\ new.bundle_price * 100 =
                            new.individual_price * (100 - new.discount_percent)
                      /\ new.name = old.name /\ new.is_active = old.is_active]_vars

\* "Summer Pack" (100, 20 percent, 80) of A (exclusive, 30), B (40), C (30)
\* has been sold: 70, 20 percent, 56; and "Dusk Pack" (5 percent) of beat 10
\* and beat 9 (30) has been sold: 30, 10 percent, 27
C15_Witness ==
    /\ \E d \in DOMAIN pc : ev[d] = EvBundle1 /\ loc[d].removed = {7}
    /\ \E d \in DOMAIN pc : ev[d] = EvDusk1 /\ loc[d].removed = {10}
    /\ bundles[1].individual_price = 70
    /\ bundles[1].discount_percent = 20
    /\ bundles[1].bundle_price = 56
    /\ bundles[3].individual_price = 30
    /\ bundles[3].discount_percent = 10
    /\ bundles[3].bundle_price = 27

\* the delivery has resolved its event to the sentinel buyer and title
ResolvedToSentinel(d) ==
    /\ loc[d].telegram_user_id = SimulationUserId
    /\ loc[d].beat_title = SimulationTitle

\* C16: a delivery whose event carries no resolvable token and whose order
\* the provider reports not found is not rejected: it resolves to the
\* sentinel buyer and title and persists an Order for them.
C16_SentinelSettles ==
    \A d \in DOMAIN pc :
        (/\ pc[d] \in {"notify", "done"}
         /\ ev[d] = EvSimulation
         /\ loc[d].lookup = "not_found") =>
            /\ ResolvedToSentinel(d)
            /\ resp[d].status \notin {400, 404, 409}
            /\ loc[d].persisted = "committed"
            /\ \E o \in orders :
                  /\ o.transaction_id = ev[d].txn
                  /\ o.telegram_user_id = SimulationUserId
                  /\ o.beat_title = SimulationTitle

\* the provider lookup of the delivery failed otherwise than by a 404
LookupFailedOtherwise(d) ==
    loc[d].lookup \in {"no_units", "error_status", "token_failure", "exception"}

\* C17: the sentinel buyer and title are assigned only when the provider
\* reported the order not found; after any other lookup failure an event
\* without a token resolves to nothing and the delivery is answered as
\* invalid (400).
C17_SentinelOnlyOnNotFound ==
    \A d \in DOMAIN pc :
        /\ ResolvedToSentinel(d) => loc[d].lookup = "not_found"
        /\ (/\ pc[d] \in {"notify", "done"}
            /\ ev[d] = EvSimulation
            /\ LookupFailedOtherwise(d)) =>
                /\ loc[d].telegram_user_id = 0
                /\ loc[d].beat_title = NoneStr
                /\ resp[d].status = 400

\* the position of a step in the settlement of lines 798-896
StepRank(step) ==
    CASE step = "commit" -> 1
      [] step = "notify" -> 2
      [] step = "release" -> 3
      [] step = "remove" -> 4

\* the steps the delivery has taken follow the settlement's order
StepsInOrder(d) ==
    \A i, j \in DOMAIN loc[d].steps :
        i < j => StepRank(loc[d].steps[i]) < StepRank(loc[d].steps[j])

\* the step clears a reservation that had not expired
ReleasesReservation ==
    \E b \in DOMAIN beats :
        /\ beats[b].reserved_by_user_id # 0
        /\ ~beats[b].reservation_expired
        /\ b \in DOMAIN beats' => beats'[b].reserved_by_user_id = 0

\* the step deletes or rewrites a beat, a bundle or a membership row
ChangesInventory ==
    \/ DOMAIN beats' # DOMAIN beats
    \/ bundles' # bundles
    \/ bundle_beats' # bundle_beats

\* C18: the Order row is committed before the gateway notification is sent;
\* the notification's outcome is known (and is a success) before a
\* reservation is released or the inventory changed; the release precedes
\* the removal; only a delivery that has committed its Order deletes an item
\* or a bundle.
C18_SettlementStepOrder ==
    /\ [](\A d \in DOMAIN pc :
            /\ pc[d] \in {"notify", "renotify"} =>
                  \E o \in orders : o.transaction_id = ev[d].txn
            /\ StepsInOrder(d)
            /\ loc[d].removed # {} =>
                  /\ loc[d].persisted = "committed"
                  /\ loc[d].notification = "success"
                  /\ loc[d].steps = <<"commit", "notify", "release", "remove">>)
    /\ [](\A s \in sent : \E o \in orders : o.transaction_id = s.transaction_id)
    /\ [][(ReleasesReservation \/ ChangesInventory) =>
            \E d \in DOMAIN pc :
                /\ pc[d] = "notify" /\ pc'[d] = "done"
                /\ loc[d].persisted = "committed"
                /\ \E o \in orders : o.id = d /\ o.transaction_id = ev[d].txn
                /\ SentFor(ev[d].txn) # {}
                /\ loc'[d].notification = "success"]_vars

\* a delivery committed its Order for a validly reserved exclusive beat,
\* notified with success and released the reservation; the removal raised,
\* so the beat is still there, unreserved
C18_Witness ==
    \E d \in DOMAIN pc :
        /\ pc[d] = "done"
        /\ ev[d] = EvBuy1
        /\ loc[d].check = "valid"
        /\ loc[d].steps = <<"commit", "notify", "release", "remove">>
        /\ \E o \in orders : o.id = d
        /\ 7 \in DOMAIN beats
        /\ beats[7].reserved_by_user_id = 0

\* C19: a deleted exclusive beat takes every membership row that references
\* it, in whatever bundle, with it in the same commit, and no other row;
\* no membership row ever references a beat or a bundle that does not exist.
C19_MembershipIntegrity ==
    /\ [](\A r \in bundle_beats : r[1] \in DOMAIN bundles /\ r[2] \in DOMAIN beats)
    /\ [][bundle_beats' = {r \in bundle_beats : r[2] \in DOMAIN beats'}]_vars

\* the exclusive beat shared by two bundles was sold on its own: it is gone
\* with its rows in both bundles, which are still there
C19_Witness ==
    /\ 7 \notin DOMAIN beats
    /\ {1, 2} \subseteq DOMAIN bundles
    /\ MembersIn(beats, bundle_beats, 1) = {8, 9}
    /\ MembersIn(beats, bundle_beats, 2) = {10}
    /\ \E d \in DOMAIN pc : ev[d] = EvBuy1 /\ loc[d].removed = {7}

\* C20: Order rows are write-once: a row that is in the table stays in it
\* with every field as it was written, whatever happens later (duplicate
\* delivery, re-notification, removal of a beat, deletion of the bundle the
\* row refers to).
C20_OrdersWriteOnce ==
    [][\A o \in orders : o \in orders']_vars

\* verify_paypal_webhook was called for the delivery and returned False: the
\* switch is off and the oracle's verdict was negative, or the call failed
\* outside development
NotVerified(d) ==
    /\ loc[d].oracle # "none"
    /\ ~config.skip_verification
    /\ \/ loc[d].oracle = "FAILURE"
       \/ loc[d].oracle = "ERROR" /\ config.environment # "development"

\* the delivery has left nothing behind: its locals are untouched, no
\* notification, waiting notice or Order is its own
LeftNoTrace(d) ==
    /\ [loc[d] EXCEPT !.oracle = "none"] = InitLoc
    /\ \A s \in sent : s.by # d
    /\ \A w \in waiting : w.by # d
    /\ \A o \in orders : o.id # d

\* C21: a delivery of a recognized event type that is not verified is
\* answered 400 and has no effect: the step that rejects it changes no
\* ledger entry, Order, notification, waiting notice, reservation or
\* inventory, and the delivery never acts again.  A verification error in
\* development is not a rejection.
C21_UnverifiedRejected ==
    /\ [](\A d \in DOMAIN pc :
            /\ NotVerified(d) =>
                  /\ pc[d] = "done"
                  /\ resp[d] = [status |-> 400, detail |-> "verification failed"]
                  /\ LeftNoTrace(d)
            /\ (loc[d].oracle = "ERROR" /\ config.environment = "development") =>
                  resp[d].detail # "verification failed")
    /\ [][\A d \in DOMAIN pc :
            /\ (pc[d] = "idle" /\ pc'[d] # "idle" /\ resp'[d].status = 400) =>
                  UNCHANGED <<store, orders, ledger, sent, waiting>>
            /\ pc[d] = "done" => UNCHANGED <<pc[d], loc[d], resp[d]>>]_vars

\* in development one delivery was accepted on a verification error and
\* settled, another was rejected on a negative verdict
C21_Witness ==
    /\ config = [environment |-> "development", skip_verification |-> FALSE]
    /\ \E d, c \in DOMAIN pc :
          /\ loc[d].oracle = "ERROR" /\ loc[d].persisted = "committed"
          /\ loc[c].oracle = "FAILURE" /\ resp[c].status = 400
          /\ ev[c].event_type = Completed

\* C22: the switch that skips verification has no effect in production:
\* there every delivery that persists an Order had SUCCESS from the
\* signature oracle.
C22_NoBypassInProduction ==
    config.environment = "production" =>
        \A d \in DOMAIN pc :
            (\E o \in orders : o.id = d) => loc[d].oracle = "SUCCESS"

\* event resolution of the delivery gave no buyer or no title (lines 689-691)
ReachedUnresolvable(d) ==
    /\ loc[d].persisted \in {"debug", "integrity_error"}
    /\ loc[d].telegram_user_id = 0 \/ loc[d].beat_title = NoneStr

\* the debug record of lines 695-706 for the delivery, with the raw data of
\* its event
DebugOrderOf(d, user, title, bundle_id, t) ==
    [id |-> d, transaction_id |-> ev[d].txn, telegram_user_id |-> user,
     beat_title |-> IF title = NoneStr THEN ParsingFailedTitle ELSE title,
     bundle_id |-> bundle_id, order_type |-> KindUnknown, created_at |-> t,
     payer_email |-> ev[d].payer_email, amount |-> AmountOf(ev[d].amount_value),
     currency |-> ev[d].currency_code]

\* C23 as stated: a settlement delivery whose event resolves to no buyer or
\* no title is answered 400, persists exactly one debug Order of kind
\* unknown with the raw transaction id, amount, currency and payer address,
\* sends no notification and changes no reservation or inventory.
C23_UnresolvableRejected ==
    [][\A d \in DOMAIN pc :
          (loc[d].persisted = "no" /\ ReachedUnresolvable(d)') =>
              /\ pc'[d] = "done"
              /\ resp'[d].status = 400
              /\ orders' = orders \cup
                   {DebugOrderOf(d, loc'[d].telegram_user_id, loc'[d].beat_title,
                                 loc'[d].bundle_id, now)}
              /\ orders' # orders
              /\ UNCHANGED <<store, sent, waiting>>]_vars

\* C23, amended: the above holds unless an Order of the transaction was
\* committed between the delivery's gate and its resolution; then the
\* commit of the debug record fails, the delivery is answered 500 and
\* persists nothing.  Either way the table holds one Order of the
\* transaction, no notification is sent and the store is left alone.
C23_UnresolvableRejectedUnlessRaced ==
    [][\A d \in DOMAIN pc :
          (loc[d].persisted = "no" /\ ReachedUnresolvable(d)') =>
              /\ pc'[d] = "done"
              /\ UNCHANGED <<store, sent, waiting>>
              /\ Cardinality(OrdersOf(ev[d].txn)') = 1
              /\ IF OrdersOf(ev[d].txn) # {}
                 THEN resp'[d].status = 500 /\ orders' = orders
                 ELSE /\ resp'[d].status = 400
                      /\ orders' = orders \cup
                           {DebugOrderOf(d, loc'[d].telegram_user_id,
                                         loc'[d].beat_title, loc'[d].bundle_id, now)}]_vars

\* the garbled transaction was delivered under two event ids: the first
\* delivery to resolve left the debug record and got 400, the second got 500
C23_Witness ==
    \E d, c \in DOMAIN pc :
        /\ ev[d] = EvGarbled /\ resp[d].status = 400
        /\ ev[c] = EvGarbledAgain /\ resp[c].status = 500
        /\ loc[c].persisted = "integrity_error"
        /\ \E o \in orders :
              /\ o.id = d /\ o.order_type = KindUnknown
              /\ o.beat_title = ParsingFailedTitle
              /\ o.amount = 3000 /\ o.payer_email = "buyer@example.com"
        /\ \A s \in sent : s.by \notin {c, d}

\* C24: a failed notification neither rolls the payment back nor fails the
\* delivery: when the gateway's outcome is not a success the delivery
\* answers 200 and the Order it committed stays in the table, as it does
\* ever after.
C24_FailedNotificationKeepsOrder ==
    /\ [](\A d \in DOMAIN pc :
            loc[d].persisted = "committed" =>
                \E o \in orders : o.id = d /\ o.transaction_id = ev[d].txn)
    /\ [][\A d \in DOMAIN pc :
            (pc[d] = "notify" /\ pc'[d] = "done"
             /\ loc'[d].notification # "success") =>
                /\ resp'[d].status = 200
                /\ orders' = orders
                /\ \E o \in orders' : o.id = d /\ o.transaction_id = ev[d].txn]_vars

\* one delivery returned 200 after a partial delivery by the gateway,
\* another after three timeouts; both Orders are in the table
C24_Witness ==
    \E d, c \in DOMAIN pc :
        /\ pc[d] = "done" /\ loc[d].notification = "failure" /\ loc[d].attempt = 0
        /\ pc[c] = "done" /\ loc[c].notification = "failure"
        /\ loc[c].attempt = MaxRetries - 1
        /\ resp[d].status = 200 /\ resp[c].status = 200
        /\ \E o, q \in orders : o.id = d /\ q.id = c

\* the standard beats on sale under the title the delivery resolved
OnSaleFor(d) ==
    {b \in DOMAIN beats : /\ beats[b].title = loc[d].beat_title
                          /\ beats[b].is_exclusive = 0
                          /\ beats[b].available = 1}

\* C25: an order for a standalone non-exclusive beat needs no reservation
\* and is settled if and only if the beat exists and its availability flag
\* is set; a missing beat and a beat withdrawn from sale are rejected before
\* an Order is persisted.
C25_StandardNeedsAvailability ==
    \A d \in DOMAIN pc :
        (loc[d].check = "standard" /\ pc[d] \in {"notify", "done"}) =>
            IF OnSaleFor(d) # {}
            THEN loc[d].persisted \in {"committed", "integrity_error"}
            ELSE /\ loc[d].persisted = "no"
                 /\ resp[d].status \in {404, 409}
                 /\ \A o \in orders : o.id # d

\* the delivery commits its Order in this step
CommitsOrder(d) == loc[d].persisted = "no" /\ loc'[d].persisted = "committed"

\* C26: an Order of kind bundle is persisted only for a bundle that exists
\* and has at least one member; a token naming no active bundle, a bundle
\* that is gone and a bundle without members are rejected before that.
C26_BundleSettledOnlyIfValid ==
    [][\A d \in DOMAIN pc :
          (CommitsOrder(d) /\ loc'[d].order_type = KindBundle) =>
              /\ loc'[d].bundle_id \in DOMAIN bundles
              /\ BeatsInBundle(beats, bundle_beats, loc'[d].bundle_id) # {}]_vars

\* C27: only a PAYMENT.CAPTURE.COMPLETED delivery writes the ledger,
\* persists an Order, sends a fulfilment notification or changes
\* reservations or inventory; a CHECKOUT.ORDER.APPROVED delivery sends at
\* most one waiting notice and changes no stored state; a delivery of any
\* other type is acknowledged with 200 and has no effect.
C27_EventDispatch ==
    /\ [](\A d \in DOMAIN pc :
            /\ ev[d].event_type # Completed =>
                  /\ \A o \in orders : o.id # d
                  /\ \A s \in sent : s.by # d
            /\ (pc[d] # "idle" /\ ev[d].event_type \notin {Completed, Approved}) =>
                  /\ pc[d] = "done"
                  /\ resp[d] = [status |-> 200, detail |-> "acknowledged"]
                  /\ loc[d] = InitLoc
                  /\ \A w \in waiting : w.by # d
            /\ Cardinality({w \in waiting : w.by = d}) <= 1)
    /\ [](\A r \in ledger :
            \E d \in DOMAIN pc : /\ ev[d].id = r.webhook_id
                                 /\ ev[d].event_type = Completed)
    /\ [][\A d \in DOMAIN pc :
            (Acts(d) /\ ev'[d].event_type # Completed) =>
                /\ UNCHANGED <<store, orders, ledger, sent>>
                /\ waiting' # waiting => ev'[d].event_type = Approved]_vars

\* an approval was answered 200 after its waiting notice, another event type
\* was acknowledged; nothing is stored or notified
C27_Witness ==
    \E d, c \in DOMAIN pc :
        /\ ev[d] = EvApproved1 /\ resp[d].status = 200
        /\ waiting = {WaitingNotice(d, 1, TitleMidnight, 0, KindBeat)}
        /\ ev[c] = EvDenied /\ resp[c] = [status |-> 200, detail |-> "acknowledged"]
        /\ orders = {} /\ ledger = {} /\ sent = {}

\* individual_price is the sum of the members' prices and bundle_price is
\* individual_price * (1 - discount_percent / 100)
PricedByMembers(b) ==
    /\ bundles[b].individual_price =
          SumPrice(beats, MembersIn(beats, bundle_beats, b))
    /\ bundles[b].bundle_price * 100 =
          bundles[b].individual_price * (100 - bundles[b].discount_percent)

\* C28: every bundle whose membership a settlement changes is repriced, so
\* every bundle that exists is priced by its current members.
C28_BundlesPricedByMembers ==
    \A b \in DOMAIN bundles : PricedByMembers(b)

\* the backoff sequence of the notification client, in seconds
Backoff == <<1, 2, 4>>

C30_ClientErrorNotRetried ==
    [][\A d \in DOMAIN pc :
          (pc[d] \in {"notify", "renotify"} /\ Acts(d)) =>
              /\ loc'[d].branch = "4xx" =>
                    /\ pc'[d] = "done"
                    /\ loc'[d].notification = "failure"
                    /\ loc'[d].attempt = loc[d].attempt
                    /\ loc'[d].waits = loc[d].waits
              /\ (loc'[d].branch = "other" /\ loc[d].attempt + 1 < 3) =>
                    /\ pc'[d] = pc[d]
                    /\ loc'[d].attempt = loc[d].attempt + 1
                    /\ loc'[d].notification = "none"
              /\ (loc'[d].branch = "other" /\ loc[d].attempt + 1 = 3) =>
                    /\ pc'[d] = "done"
                    /\ loc'[d].notification = "failure"]_vars

\* one call was ended by a 4xx at its second attempt, another by the third
\* failure in a row
C30_Witness ==
    \E d, c \in DOMAIN pc :
        /\ pc[d] = "done" /\ loc[d].branch = "4xx" /\ loc[d].attempt = 1
        /\ loc[d].notification = "failure"
        /\ pc[c] = "done" /\ loc[c].branch = "other" /\ loc[c].attempt = 2
        /\ loc[c].notification = "failure"

-----------------------------------------------------------------------------
\* C31: the body of a 200 reply decides the outcome of the notification.  A
\* call of the client reports success exactly when its last reply was a 200
\* whose body status is ok; a 200 reply with any other body (partial, error,
\* an unknown status, no status that can be read) ends the call at that
\* attempt as a failure: no further attempt, no pause.
C31_BodyStatusDecides ==
    /\ [](\A d \in DOMAIN pc :
            loc[d].notification = "success"
                <=> (loc[d].branch = "200" /\ loc[d].body = "ok"))
    /\ [][\A d \in DOMAIN pc :
            (pc[d] \in {"notify", "renotify"} /\ loc'[d] # loc[d]
                /\ loc'[d].branch = "200")
            => /\ pc'[d] = "done"
               /\ loc'[d].attempt = loc[d].attempt
               /\ loc'[d].waits = loc[d].waits
               /\ loc'[d].notification =
                     IF loc'[d].body = "ok" THEN "success" ELSE "failure"
               /\ resp'[d].status = 200]_vars

\* a 200 reply with an unknown status ended one call at its first attempt as
\* a failure, a 200 reply without a readable body ended another after a retry
C31_Witness ==
    \E d1, d2 \in DOMAIN pc :
        /\ pc[d1] = "done" /\ loc[d1].branch = "200" /\ loc[d1].body = "unknown"
        /\ loc[d1].notification = "failure" /\ loc[d1].attempt = 0
        /\ pc[d2] = "done" /\ loc[d2].branch = "200" /\ loc[d2].body = "none"
        /\ loc[d2].notification = "failure" /\ loc[d2].attempt = 1

-----------------------------------------------------------------------------
\* C32: no settlement leaves an empty bundle behind.  Every bundle of the
\* catalog has at least one member, whatever deliveries have completed.
C32_NoEmptyBundle ==
    \A b \in DOMAIN bundles : \E m \in bundle_beats : m[1] = b

-----------------------------------------------------------------------------
\* C33: a failed delivery is recovered by redelivery.  The gate answers a
\* delivery as a duplicate event only when an Order of its transaction exists
\* or another delivery of the same event id is still in progress; after a
\* delivery that ended without an Order the event is processed again.
C33_FailedDeliveryRecoverable ==
    [][\A d \in DOMAIN pc :
          (pc[d] = "gate" /\ pc'[d] = "done"
              /\ resp'[d].detail = "duplicate webhook event")
          => \/ \E o \in orders : o.transaction_id = ev[d].txn
             \/ \E c \in DOMAIN pc \ {d} : ev[c].id = ev[d].id /\ InFlight(c)]_vars

-----------------------------------------------------------------------------
\* C34: of two deliveries of one event id that are in progress together, at
\* most one passes the ledger and goes on to resolution and validation.
C34_OnePassesLedger ==
    \A d1, d2 \in DOMAIN pc :
        (d1 # d2 /\ ev[d1].id = ev[d2].id /\ InFlight(d1) /\ InFlight(d2))
            => ~(LetThrough(d1) /\ LetThrough(d2))

-----------------------------------------------------------------------------
\* C35: the removal of an exclusive beat by its title happens only in
\* deliveries that ran the reservation check.  A delivery that removed beats
\* and was not the sale of a resolved bundle has gone through the check of
\* the buyer's reservation before its Order was saved.
C35_RemovalOnlyAfterReservationCheck ==
    \A d \in DOMAIN pc :
        (loc[d].removed # {}
            /\ ~(loc[d].order_type = KindBundle /\ loc[d].bundle_id # 0))
        => loc[d].check \in {"valid", "invalid", "error"}

-----------------------------------------------------------------------------
\* C36: the settlement of a bundle never deletes an exclusive beat that
\* another buyer holds under an active reservation.  Every beat a bundle
\* delivery removes is, at that moment, unreserved, under an expired
\* reservation, or reserved by the buyer who paid.
C36_BundleSaleSparesReservedBeats ==
    [][\A d \in DOMAIN pc :
          \A b \in loc'[d].removed \ loc[d].removed :
              (loc[d].order_type = KindBundle /\ loc[d].bundle_id # 0
                  /\ beats[b].reserved_by_user_id # 0
                  /\ ~beats[b].reservation_expired)
              => beats[b].reserved_by_user_id = loc[d].telegram_user_id]_vars

-----------------------------------------------------------------------------
\* C37: an exclusive beat sold on its own whose notification has succeeded
\* is eventually removed from the catalog.  The removal is a step of the
\* delivery that notified, so it is stated of the final result: once every
\* delivery has its response, the catalog holds no exclusive beat with the
\* title of a standalone order whose notification succeeded.
C37_NotifiedBeatEventuallyRemoved ==
    (\A c \in DOMAIN pc : pc[c] = "done")
    => \A d \in DOMAIN pc :
          (loc[d].notification = "success" /\ loc[d].order_type = KindBeat)
              => (\A b \in DOMAIN beats :
                     ~(beats[b].title = loc[d].beat_title
                          /\ beats[b].is_exclusive = 1))

-----------------------------------------------------------------------------
\* C38: a debug record never causes a notification.  The gateway is never
\* called for a transaction whose Order is the record of unresolvable
\* correlation data (kind unknown).
C38_DebugOrderNeverNotified ==
    \A s \in sent :
        \A o \in orders :
            o.transaction_id = s.transaction_id => o.order_type # KindUnknown

-----------------------------------------------------------------------------
\* C39: the settlement of a bundle without exclusive members leaves the
\* catalog as it was.  In the step that ends such a delivery the bundle's
\* row (individual_price, discount_percent, bundle_price), its membership
\* and its member beats are unchanged.
C39_StandardBundleUntouched ==
    [][\A d \in DOMAIN pc :
          LET b == loc[d].bundle_id
              members == {m \in bundle_beats : m[1] = b}
          IN  (pc[d] = "notify" /\ pc'[d] = "done"
                  /\ loc[d].order_type = KindBundle /\ b \in DOMAIN bundles
                  /\ \A m \in members : beats[m[2]].is_exclusive = 0)
              => /\ b \in DOMAIN bundles' /\ bundles'[b] = bundles[b]
                 /\ {m \in bundle_beats' : m[1] = b} = members
                 /\ \A m \in members :
                       m[2] \in DOMAIN beats' /\ beats'[m[2]] = beats[m[2]]]_vars

-----------------------------------------------------------------------------
(* C40 *)

\* C40, as stated: a delivery during which an error occurred is answered
\* 500, whether the ledger raised (lines 654-656), a collaborator of the
\* reservation check raised (lines 775-779), or the cleanup raised and left
\* the sold exclusive beat in the catalog (lines 891-893).
C40_EveryErrorSurfacesAs500 ==
    \A d \in DOMAIN pc :
        (/\ pc[d] = "done"
         /\ \/ loc[d].cache_error
            \/ loc[d].check = "error"
            \/ /\ loc[d].notification = "success"
               /\ loc[d].order_type = KindBeat
               /\ BeatByTitle(beats, loc[d].beat_title, 1) # 0)
            => resp[d].status = 500

\* C40, amended: a delivery has a response exactly when its handler has
\* returned, the response is one of 200, 400, 404, 409 and 500 and never
\* changes afterwards, no delivery makes more than MaxRetries notification
\* attempts, a delivery whose handler keeps being run does not stay in flight
\* forever, a failed commit of the order is answered 500, and an error of the
\* ledger, of the reservation check or of the cleanup is swallowed: when the
\* order was committed the delivery is answered 200.
C40_OneResponseBoundedRetries ==
    /\ [](\A d \in DOMAIN pc :
             /\ (pc[d] = "done") <=> (resp[d] # NoResponse)
             /\ pc[d] = "done" => resp[d].status \in {200, 400, 404, 409, 500}
             /\ loc[d].attempt < MaxRetries
             /\ (pc[d] = "done" /\ loc[d].persisted = "integrity_error")
                    => resp[d].status = 500
             /\ (pc[d] = "done" /\ loc[d].persisted = "committed")
                    => resp[d].status = 200)
    /\ [][\A d \in DOMAIN pc :
             pc[d] = "done" => (pc'[d] = "done" /\ resp'[d] = resp[d])]_vars
    /\ \A d \in Deliveries :
          (<>[]InFlight(d) => []<><<loc'[d] # loc[d] \/ pc'[d] # pc[d]>>_vars)
              => (InFlight(d) ~> (pc[d] = "done"))

\* one delivery answered 200 at its last notification attempt although the
\* ledger and the reservation check raised, and another answered 500
C40_Witness ==
    \E d, c \in DOMAIN pc :
        /\ pc[d] = "done" /\ resp[d].status = 200
        /\ loc[d].cache_error /\ loc[d].check = "error"
        /\ loc[d].attempt = MaxRetries - 1
        /\ pc[c] = "done" /\ resp[c].status = 500

====
